---- MODULE Spec2Model ----
(***************************************************************************)
(* A model of compas_occ's BRep container (src/src/compas_occ/brep/brep.py) *)
(* over an abstract OCC kernel.                                             *)
(*                                                                          *)
(* The wrapper code is translated operator by operator.  The kernel is not  *)
(* part of the repository: every kernel call is a Kernel* operator whose    *)
(* answer is either fixed by the kernel's interface (a TopoDS_Shell has     *)
(* type SHELL, an explorer visits the sub-shapes in a fixed order) or an    *)
(* oracle the caller draws with \E (IsDone, the type of the sewed shape,    *)
(* the validity of a face).  Geometry is symbolic: a shape is its type, its *)
(* faces, and a term naming how the kernel built it.                        *)
(***************************************************************************)
EXTENDS Integers, Sequences, FiniteSets, TLC

\* Longest list of polygons, mesh faces or BRepFaces given to a constructor.
MaxFaces == 2
\* Most inner loops added to one face with add_loop.
MaxHoles == 1
\* Most points of one input polygon.
MaxPoints == 5
\* Largest half of a size of an input box.
MaxHalfSize == 2
\* Largest coordinate of an input point or vector.
MaxCoord == 2
\* Largest radius or height of an input primitive.
MaxRadius == 2
\* Most rows of poles of an input surface.
MaxRows == 3

VARIABLES A, B, brep, call, read

vars == <<A, B, brep, call, read>>

(***************************************************************************)
(* Kernel values                                                            *)
(***************************************************************************)

\* BRep.__init__: a new BRep has no shape.
None == [type |-> "None", faces |-> <<>>, geom |-> <<"None">>,
         orientation |-> "None"]

__init__ == [occ_shape |-> None]

\* TopoDS_Shell() followed by BRep_Builder.MakeShell(shell): an empty shell.
KernelMakeShell ==
    [type |-> "TopAbs_SHELL", faces |-> <<>>, geom |-> <<"shell">>,
     orientation |-> "TopAbs_FORWARD"]

\* BRep_Builder.Add(shell, face): the face is appended to the shell.
KernelAdd(shell, face) == [shell EXCEPT !.faces = Append(@, face)]

\* What BRepBuilderAPI_Sewing.SewedShape() may be for two or more faces: a
\* shell when the faces connect, a compound when they do not.
SewedTypes == {"TopAbs_SHELL", "TopAbs_COMPOUND"}

\* sewer.Load(shape); sewer.Perform(); sewer.SewedShape(): the faces are kept,
\* the type of the result is the kernel's choice t.
KernelSewedShape(shape, t) == [shape EXCEPT !.type = t]

\* ShapeFix_Shell(shape).Perform(); fixer.Shell(): a TopoDS_Shell of the faces.
KernelFixShell(shape) == [shape EXCEPT !.type = "TopAbs_SHELL"]

\* gp_Pnt(x, y, z) and gp_Vec(x, y, z): the three numbers, in that order.
gp_Pnt(x, y, z) == [cls |-> "gp_Pnt", X |-> x, Y |-> y, Z |-> z]

gp_Vec(x, y, z) == [cls |-> "gp_Vec", X |-> x, Y |-> y, Z |-> z]

\* gp_Dir(x, y, z): the vector divided by its length.  The vectors of the
\* model lie along a coordinate axis, where the quotient is the sign.
gp_Dir(x, y, z) ==
    LET Sign(n) == IF n > 0 THEN 1 ELSE IF n < 0 THEN -1 ELSE 0
    IN  [cls |-> "gp_Dir", X |-> Sign(x), Y |-> Sign(y), Z |-> Sign(z)]

\* gp_Ax2(P, N, Vx): a right-handed system at P with main direction N, x
\* direction Vx and y direction N x Vx.
gp_Ax2(P, N, Vx) ==
    [cls |-> "gp_Ax2", Location |-> P, Direction |-> N, XDirection |-> Vx,
     YDirection |-> [cls |-> "gp_Dir",
                     X |-> N.Y * Vx.Z - N.Z * Vx.Y,
                     Y |-> N.Z * Vx.X - N.X * Vx.Z,
                     Z |-> N.X * Vx.Y - N.Y * Vx.X]]

\* A face made by the kernel for a primitive solid.
PrimitiveFace(name, i) ==
    [kind |-> name, surface |-> <<name, i>>,
     loops |-> << << <<name, i>> >> >>, valid |-> TRUE, fixes |-> 0]

\* BRepPrimAPI_MakeBox(...).Shape(), MakeSphere, MakeCylinder: a solid.
KernelMakeSolid(name, n) ==
    [type |-> "TopAbs_SOLID", faces |-> [i \in 1..n |-> PrimitiveFace(name, i)],
     geom |-> <<name>>, orientation |-> "TopAbs_FORWARD"]

\* BRepAlgoAPI_Fuse / Cut / Common (first, second).Shape().
KernelBoolean(op, first, second) ==
    [type |-> "TopAbs_COMPOUND", faces |-> <<>>,
     geom |-> <<op, first.geom, second.geom>>, orientation |-> "TopAbs_FORWARD"]

(***************************************************************************)
(* TopExp_Explorer                                                          *)
(***************************************************************************)

RECURSIVE Flatten(_)
Flatten(ss) == IF ss = <<>> THEN <<>> ELSE Head(ss) \o Flatten(Tail(ss))

\* The two vertices of an edge.
EdgeVertices(e) == << <<"vertex", e, 0>>, <<"vertex", e, 1>> >>

\* TopExp_Explorer(shape, type): the sub-shapes of that type in visiting order
\* (faces in the order they were added, the wires of each face, the edges of
\* each wire, the vertices of each edge).
KernelExplore(shape, type) ==
    LET wires == Flatten([i \in 1..Len(shape.faces) |-> shape.faces[i].loops])
        edges == Flatten(wires)
    IN  CASE type = "TopAbs_FACE" -> shape.faces
          [] type = "TopAbs_WIRE" -> wires
          [] type = "TopAbs_EDGE" -> edges
          [] type = "TopAbs_VERTEX" ->
                Flatten([i \in 1..Len(edges) |-> EdgeVertices(edges[i])])

\* The wrapper classes BRepVertex, BRepEdge, BRepLoop, BRepFace.
Wrap(cls, sub) == [cls |-> cls, occ |-> sub]

\* The accessors' loop: while explorer.More(): append(cls(explorer.Current())).
RECURSIVE Traverse(_, _, _)
Traverse(visited, cls, i) ==
    IF i > Len(visited) THEN <<>>
    ELSE <<Wrap(cls, visited[i])>> \o Traverse(visited, cls, i + 1)

vertices(self) == Traverse(KernelExplore(self.occ_shape, "TopAbs_VERTEX"), "BRepVertex", 1)
edges(self) == Traverse(KernelExplore(self.occ_shape, "TopAbs_EDGE"), "BRepEdge", 1)
\* loops with the explorer of the edges accessor.
loops_of_edges(self) ==
    Traverse(KernelExplore(self.occ_shape, "TopAbs_EDGE"), "BRepLoop", 1)

loops(self) == Traverse(KernelExplore(self.occ_shape, "TopAbs_WIRE"), "BRepLoop", 1)
faces(self) == Traverse(KernelExplore(self.occ_shape, "TopAbs_FACE"), "BRepFace", 1)

type(self) == self.occ_shape.type

(***************************************************************************)
(* sew and fix.  A method that may assign self.occ_shape returns the object *)
(* after the call and the calls it made, in order.                          *)
(***************************************************************************)

\* sew without the test of the number of faces.
sew_any_count(st, t) ==
    [self |-> [st.self EXCEPT !.occ_shape = KernelSewedShape(@, t)],
     ev |-> st.ev \o << <<"sew">>, <<"BRepBuilderAPI_Sewing">> >>]

sew(st, t) ==
    IF Len(faces(st.self)) > 1
    THEN [self |-> [st.self EXCEPT !.occ_shape = KernelSewedShape(@, t)],
          ev |-> st.ev \o << <<"sew">>, <<"BRepBuilderAPI_Sewing">> >>]
    ELSE [st EXCEPT !.ev = Append(@, <<"sew">>)]

\* fix without the test of the shape type.
fix_any_type(st) ==
    [self |-> [st.self EXCEPT !.occ_shape = KernelFixShell(@)],
     ev |-> st.ev \o << <<"fix">>, <<"ShapeFix_Shell">> >>]

fix(st) ==
    IF type(st.self) = "TopAbs_SHELL"
    THEN [self |-> [st.self EXCEPT !.occ_shape = KernelFixShell(@)],
          ev |-> st.ev \o << <<"fix">>, <<"ShapeFix_Shell">> >>]
    ELSE [st EXCEPT !.ev = Append(@, <<"fix">>)]

(***************************************************************************)
(* from_polygons and from_mesh                                              *)
(***************************************************************************)

\* A polygon is given by its number of points; its face is planar and bounded
\* by one line per point.
PolygonFace(builder, points) ==
    [kind |-> builder, surface |-> <<"polygon", points>>,
     loops |-> << [i \in 1..points |-> <<"line", i>>] >>,
     valid |-> TRUE, fixes |-> 0]

triangle_to_face(points) == PolygonFace("triangle_to_face", points)
quad_to_face(points) == PolygonFace("quad_to_face", points)
ngon_to_face(points) == PolygonFace("ngon_to_face", points)

\* The loop body with polygons of fewer than three points left out.
AddPolygonSkipDegenerate(st, points) ==
    LET face == IF points = 3 THEN triangle_to_face(points)
                ELSE IF points = 4 THEN quad_to_face(points)
                ELSE ngon_to_face(points)
    IN  IF points < 3 THEN st
        ELSE [shell |-> KernelAdd(st.shell, face),
              ev |-> Append(st.ev, <<"Add", face>>)]

\* The body of the loop over the polygons.
AddPolygon(st, points) ==
    LET face == IF points = 3 THEN triangle_to_face(points)
                ELSE IF points = 4 THEN quad_to_face(points)
                ELSE ngon_to_face(points)
    IN  [shell |-> KernelAdd(st.shell, face),
         ev |-> Append(st.ev, <<"Add", face>>)]

RECURSIVE AddPolygons(_, _, _)
AddPolygons(st, polygons, i) ==
    IF i > Len(polygons) THEN st
    ELSE AddPolygons(AddPolygon(st, polygons[i]), polygons, i + 1)

from_polygons(polygons, t) ==
    LET built == AddPolygons([shell |-> KernelMakeShell, ev |-> <<>>], polygons, 1)
        made == [self |-> [__init__ EXCEPT !.occ_shape = built.shell], ev |-> built.ev]
    IN  fix(sew(made, t))

\* The loop body without the branch for four points.
AddMeshFaceNoQuad(st, mesh, face) ==
    LET points == mesh[face]
        occ_face == IF points = 3 THEN triangle_to_face(points)
                    ELSE ngon_to_face(points)
    IN  [shell |-> KernelAdd(st.shell, occ_face),
         ev |-> Append(st.ev, <<"Add", occ_face>>)]

\* mesh.faces() yields the face keys 1..n in order and mesh.face_coordinates
\* (key) the points of that face: a mesh is the list of its faces' point counts.
AddMeshFace(st, mesh, face) ==
    LET points == mesh[face]
        occ_face == IF points = 3 THEN triangle_to_face(points)
                    ELSE IF points = 4 THEN quad_to_face(points)
                    ELSE ngon_to_face(points)
    IN  [shell |-> KernelAdd(st.shell, occ_face),
         ev |-> Append(st.ev, <<"Add", occ_face>>)]

RECURSIVE AddMeshFaces(_, _, _)
AddMeshFaces(st, mesh, face) ==
    IF face > Len(mesh) THEN st
    ELSE AddMeshFaces(AddMeshFace(st, mesh, face), mesh, face + 1)

from_mesh(mesh, t) ==
    LET built == AddMeshFaces([shell |-> KernelMakeShell, ev |-> <<>>], mesh, 1)
        made == [self |-> [__init__ EXCEPT !.occ_shape = built.shell], ev |-> built.ev]
    IN  fix(sew(made, t))

(***************************************************************************)
(* BRepFace, and from_faces                                                 *)
(***************************************************************************)

\* BRepFace.from_surface(surface, loop=loop) and BRepFace.from_plane: a face on
\* the surface bounded by the loop; v is the kernel's verdict on it.
from_surface(surface, loop, v) ==
    [kind |-> "from_surface", surface |-> surface, loops |-> <<loop>>,
     valid |-> v, fixes |-> 0]

\* face.add_loop(loop): one more (inner) loop.
add_loop(face, loop) == [face EXCEPT !.loops = Append(@, loop)]

\* face.is_valid()
is_valid(face) == face.valid

\* face.fix(): the kernel's ShapeFix_Face is run on the face.
face_fix(face) == [face EXCEPT !.valid = TRUE, !.fixes = @ + 1]

\* The loop body with fix() called on every face.
AddFaceAlwaysFix(st, face, i) ==
    LET checked == Append(st.ev, <<"is_valid", i, is_valid(face)>>)
        fixed == face_fix(face)
    IN  [shell |-> KernelAdd(st.shell, fixed),
         ev |-> checked \o << <<"face.fix", i>>, <<"Add", fixed>> >>]

\* The body of the loop over the faces.
AddFace(st, face, i) ==
    LET checked == Append(st.ev, <<"is_valid", i, is_valid(face)>>)
        fixed == IF ~is_valid(face) THEN face_fix(face) ELSE face
        ev1 == IF ~is_valid(face) THEN Append(checked, <<"face.fix", i>>) ELSE checked
    IN  [shell |-> KernelAdd(st.shell, fixed), ev |-> Append(ev1, <<"Add", fixed>>)]

RECURSIVE AddFaces(_, _, _)
AddFaces(st, fs, i) ==
    IF i > Len(fs) THEN st
    ELSE AddFaces(AddFace(st, fs[i], i), fs, i + 1)

\* from_faces with fix() called before sew().
from_faces_fix_before_sew(fs, t) ==
    LET built == AddFaces([shell |-> KernelMakeShell, ev |-> <<>>], fs, 1)
        made == [self |-> [__init__ EXCEPT !.occ_shape = built.shell], ev |-> built.ev]
    IN  sew(fix(made), t)

from_faces(fs, t) ==
    LET built == AddFaces([shell |-> KernelMakeShell, ev |-> <<>>], fs, 1)
        made == [self |-> [__init__ EXCEPT !.occ_shape = built.shell], ev |-> built.ev]
    IN  fix(sew(made, t))

(***************************************************************************)
(* data                                                                     *)
(***************************************************************************)

\* edge.nurbscurve.data and OCCNurbsCurve.from_data followed by
\* BRepEdge.from_curve; face.nurbssurface.data and OCCNurbsSurface.from_data.
CurveToData(edge) == [dtype |-> "NurbsCurve", value |-> edge]
CurveFromData(curvedata) == curvedata.value
SurfaceToData(surface) == [dtype |-> "NurbsSurface", value |-> surface]
SurfaceFromData(surfacedata) == surfacedata.value

\* BRepLoop.from_edges(edges): the wire of the edges, in order.
from_edges(es) == es

\* The body of the getter's loop: face.loops[0] is the boundary, and the loop
\* over face.loops[1:] does nothing.
FaceToData(face) ==
    LET boundary == [k \in 1..Len(face.occ.loops[1]) |->
                        CurveToData(face.occ.loops[1][k])]
        holes == <<>>
    IN  [boundary |-> boundary, surface |-> SurfaceToData(face.occ.surface),
         holes |-> holes]

data(self) ==
    LET fs == faces(self)
    IN  [faces |-> [i \in 1..Len(fs) |-> FaceToData(fs[i])]]

RECURSIVE Reverse(_)
Reverse(q) == IF q = <<>> THEN <<>> ELSE Append(Reverse(Tail(q)), Head(q))

\* The setter's loop body with the boundary loop flipped (loop.occ_wire.Reverse()).
FaceFromDataFlipped(facedata, v) ==
    LET surface == SurfaceFromData(facedata.surface)
        es == [k \in 1..Len(facedata.boundary) |-> CurveFromData(facedata.boundary[k])]
        loop == Reverse(from_edges(es))
    IN  from_surface(surface, loop, v)

\* The body of the setter's loop: the loop over facedata["holes"] does nothing.
FaceFromData(facedata, v) ==
    LET surface == SurfaceFromData(facedata.surface)
        es == [k \in 1..Len(facedata.boundary) |-> CurveFromData(facedata.boundary[k])]
        loop == from_edges(es)
    IN  from_surface(surface, loop, v)

data_setter(self, d, v, t) ==
    LET fs == [j \in 1..Len(d.faces) |-> FaceFromData(d.faces[j], v)]
        made == from_faces(fs, t)
    IN  [self |-> [self EXCEPT !.occ_shape = made.self.occ_shape], ev |-> made.ev]

(***************************************************************************)
(* Primitive solids                                                         *)
(***************************************************************************)

\* A COMPAS point or vector has x, y and z; a frame has a point, an xaxis and
\* a yaxis, and its zaxis is their cross product; a box has a frame and three
\* sizes.  Lengths are even numbers of a unit, so that halves are whole.
Point(x, y, z) == [cls |-> "Point", x |-> x, y |-> y, z |-> z]

Vector(x, y, z) == [cls |-> "Vector", x |-> x, y |-> y, z |-> z]

\* frame.zaxis
zaxis(fr) ==
    LET a == fr.xaxis
        b == fr.yaxis
    IN  Vector(a.y * b.z - a.z * b.y, a.z * b.x - a.x * b.z, a.x * b.y - a.y * b.x)

\* vector.scaled(0.5 * twice): a new vector.
scaled(vector, twice) ==
    Vector((vector.x * twice) \div 2, (vector.y * twice) \div 2,
           (vector.z * twice) \div 2)

\* frame.transformed(Translation.from_vector(vector)): a new frame, moved.
translated(fr, vector) ==
    [fr EXCEPT !.point = Point(@.x + vector.x, @.y + vector.y, @.z + vector.z)]

\* BRepPrimAPI_MakeBox(ax2, dx, dy, dz).Shape(): the solid with one corner at
\* the location of ax2 that extends dx, dy and dz along its x, y and main
\* direction.
KernelMakeBox(ax2, dx, dy, dz) ==
    [KernelMakeSolid("box", 6) EXCEPT !.geom = <<"box", ax2, dx, dy, dz>>]

\* from_box with the axes scaled by 0.5 instead of -0.5.
from_box_opposite_corner(box) ==
    LET xaxis == scaled(box.frame.xaxis, box.xsize)
        yaxis == scaled(box.frame.yaxis, box.ysize)
        z == scaled(zaxis(box.frame), box.zsize)
        sum == Vector(xaxis.x + yaxis.x + z.x, xaxis.y + yaxis.y + z.y,
                      xaxis.z + yaxis.z + z.z)
        moved == translated(box.frame, sum)
        fz == zaxis(moved)
        ax2 == gp_Ax2(gp_Pnt(moved.point.x, moved.point.y, moved.point.z),
                      gp_Dir(fz.x, fz.y, fz.z),
                      gp_Dir(moved.xaxis.x, moved.xaxis.y, moved.xaxis.z))
    IN  [self |-> [__init__ EXCEPT !.occ_shape =
                      KernelMakeBox(ax2, box.xsize, box.ysize, box.zsize)],
         ev |-> <<>>, box |-> box]

\* from_box returns the BRep and leaves the box it was given as box.
from_box(box) ==
    LET xaxis == scaled(box.frame.xaxis, -box.xsize)
        yaxis == scaled(box.frame.yaxis, -box.ysize)
        z == scaled(zaxis(box.frame), -box.zsize)
        sum == Vector(xaxis.x + yaxis.x + z.x, xaxis.y + yaxis.y + z.y,
                      xaxis.z + yaxis.z + z.z)
        moved == translated(box.frame, sum)
        fz == zaxis(moved)
        ax2 == gp_Ax2(gp_Pnt(moved.point.x, moved.point.y, moved.point.z),
                      gp_Dir(fz.x, fz.y, fz.z),
                      gp_Dir(moved.xaxis.x, moved.xaxis.y, moved.xaxis.z))
    IN  [self |-> [__init__ EXCEPT !.occ_shape =
                      KernelMakeBox(ax2, box.xsize, box.ysize, box.zsize)],
         ev |-> <<>>, box |-> box]

from_sphere(sphere) == [__init__ EXCEPT !.occ_shape = KernelMakeSolid("sphere", 1)]

from_cylinder(cylinder) ==
    [__init__ EXCEPT !.occ_shape = KernelMakeSolid("cylinder", 3)]

(***************************************************************************)
(* Boolean constructors and operators.  done is the kernel's IsDone().  The *)
(* result names the kernel call, the exception raised (if any), the object  *)
(* returned and which object it is, and both operands after the call.       *)
(***************************************************************************)

NoKernel == [op |-> "none", first |-> None, second |-> None]

Raise(a, b, kernel, message) ==
    [kernel |-> kernel, raised |-> message, ret |-> __init__, obj |-> "none",
     A |-> a, B |-> b]

Return(a, b, kernel, shape) ==
    [kernel |-> kernel, raised |-> "",
     ret |-> [__init__ EXCEPT !.occ_shape = shape], obj |-> "new",
     A |-> a, B |-> b]

from_boolean_difference(a, b, done) ==
    LET cut == [op |-> "BRepAlgoAPI_Cut", first |-> a.occ_shape, second |-> b.occ_shape]
    IN  IF ~done
        THEN Raise(a, b, cut, "Boolean difference operation could not be completed.")
        ELSE Return(a, b, cut, KernelBoolean(cut.op, cut.first, cut.second))

\* The intersection stored in the first operand, which is returned.
from_boolean_intersection_in_place(a, b, done) ==
    LET common == [op |-> "BRepAlgoAPI_Common", first |-> a.occ_shape,
                   second |-> b.occ_shape]
        changed == [a EXCEPT !.occ_shape =
                        KernelBoolean(common.op, common.first, common.second)]
    IN  IF ~done
        THEN Raise(a, b, common, "Boolean intersection operation could not be completed.")
        ELSE [kernel |-> common, raised |-> "", ret |-> changed, obj |-> "A",
              A |-> changed, B |-> b]

from_boolean_intersection(a, b, done) ==
    LET common == [op |-> "BRepAlgoAPI_Common", first |-> a.occ_shape,
                   second |-> b.occ_shape]
    IN  IF ~done
        THEN Raise(a, b, common, "Boolean intersection operation could not be completed.")
        ELSE Return(a, b, common, KernelBoolean(common.op, common.first, common.second))

\* The union without the test of IsDone().
from_boolean_union_unchecked(a, b, done) ==
    LET fuse == [op |-> "BRepAlgoAPI_Fuse", first |-> a.occ_shape, second |-> b.occ_shape]
    IN  Return(a, b, fuse, KernelBoolean(fuse.op, fuse.first, fuse.second))

from_boolean_union(a, b, done) ==
    LET fuse == [op |-> "BRepAlgoAPI_Fuse", first |-> a.occ_shape, second |-> b.occ_shape]
    IN  IF ~done
        THEN Raise(a, b, fuse, "Boolean union operation could not be completed.")
        ELSE Return(a, b, fuse, KernelBoolean(fuse.op, fuse.first, fuse.second))

__add__(self, other, done) == from_boolean_union(self, other, done)

\* The difference with the operands exchanged.
__rsub__(self, other, done) == from_boolean_difference(other, self, done)

__sub__(self, other, done) == from_boolean_difference(self, other, done)

__and__(self, other, done) == from_boolean_intersection(self, other, done)

(***************************************************************************)
(* The read accessors.  A getter returns its value and the object after the *)
(* call.                                                                    *)
(***************************************************************************)

\* vertex.point, edge.nurbscurve, face.nurbssurface of the wrappers.
VertexPoint(vertex) == <<"point", vertex.occ>>
EdgeCurve(edge) == <<"nurbscurve", edge.occ>>
FaceSurface(face) == <<"nurbssurface", face.occ.surface>>

points(self) ==
    LET vs == vertices(self) IN [i \in 1..Len(vs) |-> VertexPoint(vs[i])]

curves(self) ==
    LET es == edges(self) IN [i \in 1..Len(es) |-> EdgeCurve(es[i])]

surfaces(self) ==
    LET fs == faces(self) IN [i \in 1..Len(fs) |-> FaceSurface(fs[i])]

orientation(self) == <<"TopAbs_Orientation", self.occ_shape.orientation>>

\* frame reads transformation.Value(i, j) for i and j in range(4), which is
\* outside the rows 1..3 and columns 1..4 of the kernel's matrix: the kernel
\* either raises or hands back whatever it finds there.
FrameOutcomes == {"Standard_OutOfRange", "Frame.from_transformation"}

frame(self, outcome) == [self |-> self, ret |-> <<"frame", outcome>>]

ReadKinds == {"vertices", "edges", "loops", "faces", "points", "curves",
              "surfaces", "type", "orientation"}

Get(self, kind) ==
    [self |-> self,
     ret |-> CASE kind = "vertices" -> vertices(self)
               [] kind = "edges" -> edges(self)
               [] kind = "loops" -> loops(self)
               [] kind = "faces" -> faces(self)
               [] kind = "points" -> points(self)
               [] kind = "curves" -> curves(self)
               [] kind = "surfaces" -> surfaces(self)
               [] kind = "type" -> <<type(self)>>
               [] kind = "orientation" -> orientation(self)]

(***************************************************************************)
(* conversions/primitives.py.  A function that builds a COMPAS object gets  *)
(* the class first; it returns what it raised (if anything) and its value.  *)
(* A call that leaves out a positional argument passes Missing for it.      *)
(***************************************************************************)

Missing == [cls |-> "missing"]

TypeError == [raised |-> "TypeError", ret |-> Missing]

\* gp_Pnt(*self): the point is iterated as x, y, z.
compas_point_to_occ_point(self) == gp_Pnt(self.x, self.y, self.z)

\* The point built from Y, X, Z.
compas_point_from_occ_point_yxz(cls, point) ==
    IF point.cls = "missing" THEN TypeError
    ELSE [raised |-> "", ret |-> [cls |-> cls, x |-> point.Y, y |-> point.X,
                                  z |-> point.Z]]

\* cls(point.X(), point.Y(), point.Z())
compas_point_from_occ_point(cls, point) ==
    IF point.cls = "missing" THEN TypeError
    ELSE [raised |-> "", ret |-> [cls |-> cls, x |-> point.X, y |-> point.Y,
                                  z |-> point.Z]]

compas_vector_to_occ_vector(self) == gp_Vec(self.x, self.y, self.z)

compas_vector_from_occ_vector(cls, vector) ==
    IF vector.cls = "missing" THEN TypeError
    ELSE [raised |-> "", ret |-> [cls |-> cls, x |-> vector.X, y |-> vector.Y,
                                  z |-> vector.Z]]

compas_vector_to_occ_direction(self) == gp_Dir(self.x, self.y, self.z)

compas_vector_from_occ_direction(cls, vector) ==
    IF vector.cls = "missing" THEN TypeError
    ELSE [raised |-> "", ret |-> [cls |-> cls, x |-> vector.X, y |-> vector.Y,
                                  z |-> vector.Z]]

\* gp_Ax1(location, direction)
compas_axis_to_occ_axis(axis) ==
    [cls |-> "gp_Ax1", Location |-> compas_point_to_occ_point(axis[1]),
     Direction |-> compas_vector_to_occ_direction(axis[2])]

\* Both conversions are called with the kernel value alone: it is bound to
\* cls, and the second positional argument is left out.
compas_axis_from_occ_axis(axis) ==
    LET point == compas_point_from_occ_point(axis.Location, Missing)
        vector == compas_vector_from_occ_direction(axis.Direction, Missing)
    IN  IF point.raised # "" THEN point
        ELSE IF vector.raised # "" THEN vector
        ELSE [raised |-> "", ret |-> <<point.ret, vector.ret>>]

\* A COMPAS line has a start and an end, and its direction points from the one
\* to the other; a plane has a point and a normal; a circle a plane and a
\* radius; a sphere a point and a radius; a cylinder and a cone a circle and a
\* height; a torus a plane and two radii.

\* gp_Lin(location, direction)
compas_line_to_occ_line(self) ==
    LET direction == Vector(self.end.x - self.start.x, self.end.y - self.start.y,
                            self.end.z - self.start.z)
    IN  [cls |-> "gp_Lin", Location |-> compas_point_to_occ_point(self.start),
         Direction |-> compas_vector_to_occ_direction(direction)]

\* <kind>.to_occ(): the function compas_<kind>_to_occ_<kind> of the module.
\* gp_Cone is given a position and a radius, and no angle: the kernel either
\* takes the two or rejects the call, which is its outcome.
to_occ(kind, value, outcome) ==
    LET \* gp_Ax2(location, normal) and gp_Ax3(location, normal)
        compas_plane_to_occ_ax2(plane) ==
            [cls |-> "gp_Ax2", Location |-> compas_point_to_occ_point(plane.point),
             Direction |-> compas_vector_to_occ_direction(plane.normal)]
        compas_plane_to_occ_ax3(plane) ==
            [cls |-> "gp_Ax3", Location |-> compas_point_to_occ_point(plane.point),
             Direction |-> compas_vector_to_occ_direction(plane.normal)]
    IN  CASE kind = "point" -> compas_point_to_occ_point(value)
          [] kind = "vector" -> compas_vector_to_occ_vector(value)
          [] kind = "line" -> compas_line_to_occ_line(value)
          [] kind = "plane" ->
                [cls |-> "gp_Pln", Location |-> compas_point_to_occ_point(value.point),
                 Direction |-> compas_vector_to_occ_direction(value.normal)]
          [] kind = "circle" ->
                [cls |-> "gp_Circ", Position |-> compas_plane_to_occ_ax2(value.plane),
                 Radius |-> value.radius]
          [] kind = "sphere" ->
                \* plane = Plane(sphere.point, [0, 0, 1])
                [cls |-> "gp_Sphere",
                 Position |-> compas_plane_to_occ_ax3(
                                 [cls |-> "Plane", point |-> value.point,
                                  normal |-> Vector(0, 0, 1)]),
                 Radius |-> value.radius]
          [] kind = "cylinder" ->
                \* cylinder.plane is the plane of cylinder.circle
                [cls |-> "gp_Cylinder",
                 Position |-> compas_plane_to_occ_ax3(value.circle.plane),
                 Radius |-> value.circle.radius]
          [] kind = "cone" ->
                IF outcome = "TypeError" THEN [cls |-> "TypeError"]
                ELSE [cls |-> "gp_Cone",
                      Position |-> compas_plane_to_occ_ax3(value.circle.plane),
                      Radius |-> value.circle.radius]
          [] kind = "torus" ->
                [cls |-> "gp_Torus", Position |-> compas_plane_to_occ_ax3(value.plane),
                 MajorRadius |-> value.radius_axis, MinorRadius |-> value.radius_pipe]

\* from_occ with a conversion of lines that builds the line from the location
\* to the point one direction further.
from_occ_with_line(kind, occ) ==
    CASE kind = "point" -> compas_point_from_occ_point("Point", occ)
      [] kind = "vector" -> compas_vector_from_occ_vector("Vector", occ)
      [] kind = "line" ->
            [raised |-> "",
             ret |-> [cls |-> "Line",
                      start |-> Point(occ.Location.X, occ.Location.Y, occ.Location.Z),
                      end |-> Point(occ.Location.X + occ.Direction.X,
                                    occ.Location.Y + occ.Direction.Y,
                                    occ.Location.Z + occ.Direction.Z)]]
      [] OTHER -> [raised |-> "ImportError", ret |-> Missing]

\* <Kind>.from_occ(occ): the function compas_<kind>_from_occ_<kind> of the
\* module, which has one for points and one for vectors; the import of any
\* other fails.
from_occ(kind, occ) ==
    CASE kind = "point" -> compas_point_from_occ_point("Point", occ)
      [] kind = "vector" -> compas_vector_from_occ_vector("Vector", occ)
      [] OTHER -> [raised |-> "ImportError", ret |-> Missing]

(***************************************************************************)
(* geometry/surfaces/bspline.py.  A BSplineSurface holds occ_surface, the   *)
(* kernel's Geom_BSplineSurface: its poles in rows, knots, multiplicities,  *)
(* degrees and periodicity.  A Python list of points is flat (dim 1) or a   *)
(* list of rows (dim 2).  A sequence of numbers stands for a list and for a *)
(* kernel array of them alike.                                              *)
(***************************************************************************)

\* BSplineSurface.__init__: occ_surface = None.
NoSurface == [occ_surface |-> [cls |-> "None"]]

\* array2_from_points2(points): the TColgp_Array2OfPnt of the rows of points;
\* a flat list has no rows to take.
array2_from_points2(list) ==
    IF list.dim # 2 THEN TypeError
    ELSE [raised |-> "",
          ret |-> [i \in 1..Len(list.items) |->
                      [j \in 1..Len(list.items[i]) |->
                          compas_point_to_occ_point(list.items[i][j])]]]

\* points2_from_array2(array): the rows of COMPAS points.
points2_from_array2(array) ==
    [dim |-> 2,
     items |-> [i \in 1..Len(array) |->
                   [j \in 1..Len(array[i]) |->
                       compas_point_from_occ_point("Point", array[i][j]).ret]]]

from_parameters(ps, u_knots, v_knots, u_mults, v_mults, u_degree, v_degree, is_u_periodic, is_v_periodic) ==
    LET array == array2_from_points2(ps)
    IN  IF array.raised # "" THEN [raised |-> array.raised, ret |-> NoSurface]
        ELSE [raised |-> "",
              ret |-> [occ_surface |->
                          [cls |-> "Geom_BSplineSurface", Poles |-> array.ret,
                           UKnots |-> u_knots, VKnots |-> v_knots,
                           UMultiplicities |-> u_mults, VMultiplicities |-> v_mults,
                           UDegree |-> u_degree, VDegree |-> v_degree,
                           IsUPeriodic |-> is_u_periodic,
                           IsVPeriodic |-> is_v_periodic]]]

\* poles after self.occ_surface.ExchangeUV(), to have the columns as rows.
poles_exchanging_uv(self) ==
    LET P == self.occ_surface.Poles
        exchanged == [self.occ_surface EXCEPT
                         !.Poles = [j \in 1..Len(P[1]) |-> [i \in 1..Len(P) |-> P[i][j]]],
                         !.UKnots = self.occ_surface.VKnots,
                         !.VKnots = self.occ_surface.UKnots]
    IN  [self |-> [self EXCEPT !.occ_surface = exchanged],
         ret |-> points2_from_array2(exchanged.Poles)]

poles(self) ==
    [self |-> self, ret |-> points2_from_array2(self.occ_surface.Poles)]

\* u_domain: umin, umax of occ_surface.Bounds().
u_domain(self) ==
    [self |-> self,
     ret |-> <<self.occ_surface.UKnots[1],
               self.occ_surface.UKnots[Len(self.occ_surface.UKnots)]>>]

v_domain(self) ==
    [self |-> self,
     ret |-> <<self.occ_surface.VKnots[1],
               self.occ_surface.VKnots[Len(self.occ_surface.VKnots)]>>]

\* occ_surface.Value(u, v) of a surface of degree one with simple inner knots,
\* at knots: the pole of that row and column.
KernelValue(S, u, v) ==
    LET i == CHOOSE k \in 1..Len(S.UKnots) : S.UKnots[k] = u
        j == CHOOSE k \in 1..Len(S.VKnots) : S.VKnots[k] = v
    IN  S.Poles[i][j]

point_at(self, u, v) ==
    [self |-> self,
     ret |-> compas_point_from_occ_point("Point", KernelValue(self.occ_surface, u, v)).ret]

\* occ_surface.D1(u, v, point, uvec, vvec) of such a surface with knots one
\* apart: the point, and the differences of the poles of the span.
frame_at(self, u, v) ==
    LET S == self.occ_surface
        u0 == IF u < S.UKnots[Len(S.UKnots)] THEN u ELSE u - 1
        v0 == IF v < S.VKnots[Len(S.VKnots)] THEN v ELSE v - 1
        point == KernelValue(S, u, v)
        a == KernelValue(S, u0, v)
        b == KernelValue(S, u0 + 1, v)
        c == KernelValue(S, u, v0)
        d == KernelValue(S, u, v0 + 1)
        uvec == gp_Vec(b.X - a.X, b.Y - a.Y, b.Z - a.Z)
        vvec == gp_Vec(d.X - c.X, d.Y - c.Y, d.Z - c.Z)
    IN  [self |-> self,
         ret |-> [cls |-> "Frame",
                  point |-> compas_point_from_occ_point("Point", point).ret,
                  xaxis |-> compas_vector_from_occ_vector("Vector", uvec).ret,
                  yaxis |-> compas_vector_from_occ_vector("Vector", vvec).ret]]

\* GeomAPI_IntCS(Geom_Line(line.to_occ()), occ_surface): hits are the points
\* the kernel found, in its order.
intersections(self, line, hits) ==
    LET occ_line == compas_line_to_occ_line(line)
    IN  [self |-> self,
         ret |-> [index \in 1..Len(hits) |->
                     compas_point_from_occ_point("Point", hits[index]).ret]]

\* copy: BSplineSurface.from_parameters makes a new object, with a kernel
\* surface made by the constructor from what the accessors of self return.
copy(self) ==
    LET S == self.occ_surface
        made == from_parameters(poles(self).ret, S.UKnots, S.VKnots,
                                S.UMultiplicities, S.VMultiplicities,
                                S.UDegree, S.VDegree, S.IsUPeriodic, S.IsVPeriodic)
    IN  [self |-> self, raised |-> made.raised, ret |-> made.ret,
         obj |-> IF made.raised = "" THEN "new" ELSE "none"]

\* transform: gp_Trsf.SetValues takes the twelve numbers of three rows and T.list
\* has the sixteen of four; occ_surface.Transform takes a gp_Trsf and is given
\* T, not _T.  The binding refuses both calls.
transform(self, T) ==
    LET values == T.list
        given == T
    IN  IF Len(values) # 12 THEN [self |-> self, raised |-> "TypeError"]
        ELSE IF given.cls # "gp_Trsf" THEN [self |-> self, raised |-> "TypeError"]
        ELSE [self |-> [self EXCEPT !.occ_surface.Poles =
                           [i \in 1..Len(@) |-> [j \in 1..Len(@[i]) |->
                               gp_Pnt(@[i][j].X + values[4], @[i][j].Y + values[8],
                                      @[i][j].Z + values[12])]]],
              raised |-> ""]

\* transformed: the copy is transformed and returned; an exception of
\* transform leaves the caller without it.
transformed(self, T) ==
    LET made == copy(self)
        moved == transform(made.ret, T)
    IN  IF made.raised # ""
        THEN [self |-> made.self, raised |-> made.raised, ret |-> NoSurface, obj |-> "none"]
        ELSE IF moved.raised # ""
        THEN [self |-> made.self, raised |-> moved.raised, ret |-> NoSurface, obj |-> "none"]
        ELSE [self |-> made.self, raised |-> "", ret |-> moved.self, obj |-> "new"]

\* linspace(start, stop, num): num values from start to stop in equal steps.
\* The model keeps to counts for which the steps are whole.
linspace(start, stop, num) ==
    [k \in 1..num |-> start + ((k - 1) * (stop - start)) \div (num - 1)]

\* meshgrid(x, y) with its default indexing 'xy': two lists of len(y) rows of
\* len(x) entries, X[i][j] = x[j] and Y[i][j] = y[i].
meshgrid(x, y) ==
    << [i \in 1..Len(y) |-> [j \in 1..Len(x) |-> x[j]]],
       [i \in 1..Len(y) |-> [j \in 1..Len(x) |-> y[i]]] >>

uspace(self, n) ==
    [self |-> self, ret |-> linspace(u_domain(self).ret[1], u_domain(self).ret[2], n)]

vspace(self, n) ==
    [self |-> self, ret |-> linspace(v_domain(self).ret[1], v_domain(self).ret[2], n)]

\* to_vizmesh(u, v): v is <<>> for None; the mesh returned is
\* Mesh.from_polygons(quads), kept as the list of its polygons.  The loops run i over range(u - 1)
\* and j over range(v - 1) and read U and V at [i + 0 or 1][j + 0 or 1]; a list
\* index past the end raises IndexError.  Lists here start at 1.
to_vizmesh(self, u, v) ==
    LET n == IF v = <<>> THEN u ELSE IF v[1] = 0 THEN u ELSE v[1]
        grid == meshgrid(uspace(self, u).ret, vspace(self, n).ret)
        U == grid[1]
        V == grid[2]
        Inside(i, j) == i + 1 <= Len(U) /\ j + 1 <= Len(U[i + 1])
        At(i, j) == point_at(self, U[i + 1][j + 1], V[i + 1][j + 1]).ret
        Quad(i, j) == <<At(i, j), At(i, j + 1), At(i + 1, j + 1), At(i + 1, j)>>
        inside == \A i \in 0..(u - 2), j \in 0..(n - 2) :
                      /\ Inside(i, j) /\ Inside(i, j + 1)
                      /\ Inside(i + 1, j + 1) /\ Inside(i + 1, j)
        quads == [k \in 1..((u - 1) * (n - 1)) |->
                     Quad((k - 1) \div (n - 1), (k - 1) % (n - 1))]
    IN  IF ~inside
        THEN [self |-> self, raised |-> "IndexError",
              ret |-> [cls |-> "None", polygons |-> <<>>]]
        ELSE [self |-> self, raised |-> "",
              ret |-> [cls |-> "Mesh", polygons |-> quads]]

\* The accessors and evaluations of a surface; args are the parameters of
\* point_at and frame_at, or the line and the kernel's hits of intersections.
SurfaceReadKinds ==
    {"poles", "u_knots", "v_knots", "u_mults", "v_mults", "u_degree", "v_degree",
     "u_domain", "v_domain", "is_u_periodic", "is_v_periodic", "point_at",
     "frame_at", "intersections"}

BSplineSurface_get(self, kind, args) ==
    LET S == self.occ_surface
    IN  CASE kind = "poles" -> poles(self)
          [] kind = "u_knots" -> [self |-> self, ret |-> S.UKnots]
          [] kind = "v_knots" -> [self |-> self, ret |-> S.VKnots]
          [] kind = "u_mults" -> [self |-> self, ret |-> S.UMultiplicities]
          [] kind = "v_mults" -> [self |-> self, ret |-> S.VMultiplicities]
          [] kind = "u_degree" -> [self |-> self, ret |-> S.UDegree]
          [] kind = "v_degree" -> [self |-> self, ret |-> S.VDegree]
          [] kind = "u_domain" -> u_domain(self)
          [] kind = "v_domain" -> v_domain(self)
          [] kind = "is_u_periodic" -> [self |-> self, ret |-> S.IsUPeriodic]
          [] kind = "is_v_periodic" -> [self |-> self, ret |-> S.IsVPeriodic]
          [] kind = "point_at" -> point_at(self, args[1], args[2])
          [] kind = "frame_at" -> frame_at(self, args[1], args[2])
          [] kind = "intersections" -> intersections(self, args[1], args[2])

\* The data getter: 'points' is the flat list of the data [x, y, z] of
\* self.points, an attribute the class does not define: the outcome is that
\* there is none (AttributeError) or, if a base class has it, that it is the
\* poles in one flat list.
BSplineSurface_data(self, outcome) ==
    LET S == self.occ_surface
        rows == poles(self).ret.items
        flat == Flatten(rows)
        PointToData(point) == <<point.x, point.y, point.z>>
    IN  IF outcome = "AttributeError"
        THEN [raised |-> "AttributeError", ret |-> Missing]
        ELSE [raised |-> "",
              ret |-> [points |-> [k \in 1..Len(flat) |-> PointToData(flat[k])],
                       u_knots |-> S.UKnots, v_knots |-> S.VKnots,
                       u_mults |-> S.UMultiplicities, v_mults |-> S.VMultiplicities,
                       u_degree |-> S.UDegree, v_degree |-> S.VDegree,
                       is_u_periodic |-> S.IsUPeriodic,
                       is_v_periodic |-> S.IsVPeriodic]]

\* from_data: the poles are the flat list of Point.from_data of the points of
\* the data.
from_data(d) ==
    LET PointFromData(pointdata) == Point(pointdata[1], pointdata[2], pointdata[3])
        ps == [dim |-> 1,
               items |-> [k \in 1..Len(d.points) |-> PointFromData(d.points[k])]]
    IN  from_parameters(ps, d.u_knots, d.v_knots, d.u_mults, d.v_mults,
                        d.u_degree, d.v_degree, d.is_u_periodic, d.is_v_periodic)

\* The data setter calls the kernel's constructor as from_parameters does and
\* assigns the surface to self.
BSplineSurface_data_setter(self, d) ==
    LET made == from_data(d)
    IN  IF made.raised # "" THEN [raised |-> made.raised, ret |-> self]
        ELSE [raised |-> "",
              ret |-> [self EXCEPT !.occ_surface = made.ret.occ_surface]]

(***************************************************************************)
(* STEP export, the constructors without an implementation, is_manifold     *)
(***************************************************************************)

\* IFSelect_ReturnStatus: what STEPControl_Writer.Write may report.
IFSelect_ReturnStatus ==
    {"IFSelect_RetVoid", "IFSelect_RetDone", "IFSelect_RetError",
     "IFSelect_RetFail", "IFSelect_RetStop"}

\* to_step without the assertion on the status.
to_step_no_check(self, status) ==
    [self |-> self, raised |-> "", ret |-> "None"]

\* BRep.to_step: the shape is transferred and written; status is the writer's
\* report.
to_step(self, status) ==
    IF status = "IFSelect_RetDone"
    THEN [self |-> self, raised |-> "", ret |-> "None"]
    ELSE [self |-> self, raised |-> "AssertionError: STEP writing failed.",
          ret |-> "none"]

\* A classmethod that raises: no object is made.
NotImplemented(kernel) ==
    [kernel |-> kernel, raised |-> "NotImplementedError", ret |-> __init__,
     obj |-> "none"]

from_curves(cs) == NotImplemented(NoKernel)

from_cone(cone) == NotImplemented(NoKernel)

\* from_torus built after from_sphere.
from_torus_built(torus) ==
    [kernel |-> NoKernel, raised |-> "",
     ret |-> [__init__ EXCEPT !.occ_shape = KernelMakeSolid("torus", 1)],
     obj |-> "new"]

from_torus(torus) == NotImplemented(NoKernel)

\* A classmethod whose body is pass returns None: no object is made.
from_extrusion(curve, vector) ==
    [kernel |-> NoKernel, raised |-> "", ret |-> __init__, obj |-> "None"]

from_sweep(profile, path) ==
    [kernel |-> NoKernel, raised |-> "", ret |-> __init__, obj |-> "None"]

\* is_manifold: the body is pass, the call returns None.
is_manifold(self) == [self |-> self, ret |-> <<"None">>]

\* BSplineSurface.to_step: the face made of occ_surface is transferred and
\* written; status is the writer's report.
BSplineSurface_to_step(self, status) ==
    IF status # "IFSelect_RetDone"
    THEN [self |-> self, raised |-> "AssertionError: Operation failed.",
          ret |-> "none"]
    ELSE [self |-> self, raised |-> "", ret |-> "None"]

from_points(ps) == NotImplemented(NoKernel)

from_step(filepath) == NotImplemented(NoKernel)

(***************************************************************************)
(* Tesselation.  A mesh is its list of vertices and its list of faces, a   *)
(* face being the list of the 0-based places of its vertices in that list. *)
(***************************************************************************)

\* BRepMesh_IncrementalMesh(shape, deflection) followed by
\* BRep_Tool.Triangulation(face, location): the kernel's triangles over the
\* nodes of the face, numbered from 1, or a null triangulation when the
\* kernel could not mesh the face.  The kernel is free in how it cuts a face:
\* a fan around the first node or one around the last, triangles turned.
KernelTriangulation(face, style) ==
    LET n == IF Len(face.loops[1]) < 3 THEN 3 ELSE Len(face.loops[1])
    IN  [null |-> style = "null",
         Nodes |-> [k \in 1..n |-> gp_Pnt(k, n, 0)],
         Triangles |-> [k \in 1..(n - 2) |->
                          IF style = "fan" THEN <<1, k + 1, k + 2>>
                          ELSE <<n, k + 1, k>>]]

\* points1_from_array1(array): the list of the points of a kernel array.
points1_from_array1(array) ==
    [i \in 1..Len(array) |-> compas_point_from_occ_point("Point", array[i]).ret]

\* mesh.join(other): the vertices of other are added after those of mesh and
\* the faces of other follow, over the new places of their vertices.
join(mesh, other) ==
    [vertices |-> mesh.vertices \o other.vertices,
     faces |-> mesh.faces \o
               [k \in 1..Len(other.faces) |->
                   [c \in 1..Len(other.faces[k]) |->
                       other.faces[k][c] + Len(mesh.vertices)]]]

\* The loop body with the kernel's indices taken as they are.
FaceMeshOneBased(face, style) ==
    LET triangulation == KernelTriangulation(face.occ, style)
        nodes == triangulation.Nodes
        triangles == triangulation.Triangles
    IN  IF triangulation.null
        THEN [raised |-> "AttributeError", other |-> [vertices |-> <<>>, faces |-> <<>>]]
        ELSE [raised |-> "",
              other |-> [vertices |-> points1_from_array1(nodes),
                         faces |-> [i \in 1..Len(triangles) |-> triangles[i]]]]

\* The body of the loop over self.faces: the mesh of one face.  A null
\* triangulation has no Nodes().
FaceMesh(face, style) ==
    LET triangulation == KernelTriangulation(face.occ, style)
        nodes == triangulation.Nodes
        triangles == triangulation.Triangles
    IN  IF triangulation.null
        THEN [raised |-> "AttributeError", other |-> [vertices |-> <<>>, faces |-> <<>>]]
        ELSE [raised |-> "",
              other |-> [vertices |-> points1_from_array1(nodes),
                         faces |-> [i \in 1..Len(triangles) |->
                                       <<triangles[i][1] - 1, triangles[i][2] - 1,
                                         triangles[i][3] - 1>>]]]

\* BRep.to_tesselation: the per-face meshes, made in face order, are joined
\* into one mesh; parts lists them.
to_tesselation(self, style) ==
    LET fs == faces(self)
        loop[i \in 0..Len(fs)] ==
            IF i = 0
            THEN [raised |-> "", mesh |-> [vertices |-> <<>>, faces |-> <<>>],
                  parts |-> <<>>]
            ELSE LET done == loop[i - 1]
                     one == FaceMesh(fs[i], style)
                 IN  IF done.raised # "" THEN done
                     ELSE IF one.raised # "" THEN [done EXCEPT !.raised = one.raised]
                     ELSE [raised |-> "", mesh |-> join(done.mesh, one.other),
                           parts |-> Append(done.parts, one.other)]
        r == loop[Len(fs)]
    IN  [self |-> self, raised |-> r.raised, ret |-> r.mesh, parts |-> r.parts]

(***************************************************************************)
(* The program: two operands A and B, built from primitives, and a variable *)
(* brep that is bound to the object each call returns.  A call is recorded  *)
(* in call, a read of brep in read.                                         *)
(***************************************************************************)

PointCounts == 2..MaxPoints

RECURSIVE SeqsUpTo(_, _)
SeqsUpTo(S, n) ==
    IF n = 0 THEN {<<>>}
    ELSE LET shorter == SeqsUpTo(S, n - 1)
         IN  shorter \cup {Append(s, x) : s \in {q \in shorter : Len(q) = n - 1}, x \in S}

PolygonLists == SeqsUpTo(PointCounts, MaxFaces)

\* The faces a caller may hold: a valid face on a plane with up to MaxHoles
\* inner loops, or a face on a NURBS surface that the kernel finds invalid.

BoundaryLoop == << <<"curve", 1>>, <<"curve", 2>> >>

HoleLoop(j) == << <<"circle", j>> >>

RECURSIVE WithHoles(_, _)
WithHoles(face, k) ==
    IF k = 0 THEN face ELSE add_loop(WithHoles(face, k - 1), HoleLoop(k))

FacePool ==
    {WithHoles(from_surface(<<"plane", 0>>, BoundaryLoop, TRUE), k) : k \in 0..MaxHoles}
    \cup {from_surface(<<"nurbs", 0>>, BoundaryLoop, FALSE)}

FaceLists == SeqsUpTo(FacePool, MaxFaces)

NoCall == [entry |-> "none", args |-> <<>>, oracle |-> <<>>, ev |-> <<>>,
           kernel |-> NoKernel, raised |-> "", ret |-> __init__, obj |-> "none",
           post |-> <<>>]

NoRead == [kind |-> "none", result |-> <<>>, again |-> <<>>, before |-> None]

\* The boxes a caller may give to from_box: at the origin or away from it, in
\* a frame along the world axes or turned, with even sizes.
Boxes ==
    LET Sizes == {2 * k : k \in 1..MaxHalfSize}
    IN
    {[frame |-> [point |-> p, xaxis |-> a[1], yaxis |-> a[2]],
      xsize |-> sx, ysize |-> sy, zsize |-> sz] :
        p \in {Point(0, 0, 0), Point(1, 2, 3)},
        a \in {<<Vector(1, 0, 0), Vector(0, 1, 0)>>,
               <<Vector(0, 1, 0), Vector(0, 0, 1)>>,
               <<Vector(0, -1, 0), Vector(1, 0, 0)>>},
        sx \in Sizes, sy \in Sizes, sz \in Sizes}

\* The primitives a caller may hold, by kind.
Primitives(kind) ==
    LET Coords == 0..MaxCoord
        Radii == 1..MaxRadius
        Planes == {[cls |-> "Plane", point |-> p, normal |-> n] :
                      p \in {Point(0, 0, 0), Point(1, 2, 3)},
                      n \in {Vector(0, 0, 1), Vector(1, 0, 0), Vector(0, -1, 0)}}
        Circles == {[cls |-> "Circle", plane |-> pl, radius |-> r] :
                       pl \in Planes, r \in Radii}
    IN  CASE kind = "point" -> {Point(x, y, z) : x \in Coords, y \in Coords, z \in Coords}
          [] kind = "vector" -> {Vector(x, y, z) : x \in Coords, y \in Coords, z \in Coords}
          [] kind = "line" ->
                {[cls |-> "Line", start |-> pl.point,
                  end |-> Point(pl.point.x + k * pl.normal.x,
                                pl.point.y + k * pl.normal.y,
                                pl.point.z + k * pl.normal.z)] :
                    pl \in Planes, k \in 1..MaxCoord}
          [] kind = "plane" -> Planes
          [] kind = "circle" -> Circles
          [] kind = "sphere" ->
                {[cls |-> "Sphere", point |-> pl.point, radius |-> r] :
                    pl \in Planes, r \in Radii}
          [] kind = "cylinder" ->
                {[cls |-> "Cylinder", circle |-> c, height |-> h] :
                    c \in Circles, h \in Radii}
          [] kind = "cone" ->
                {[cls |-> "Cone", circle |-> c, height |-> h] :
                    c \in Circles, h \in Radii}
          [] kind = "torus" ->
                {[cls |-> "Torus", plane |-> pl, radius_axis |-> r, radius_pipe |-> q] :
                    pl \in Planes, r \in Radii, q \in Radii}

\* The surfaces a caller may hold: of degree one in both directions, with
\* rows x 2 poles over the knots 1..rows and 1..2, flat or sloped.
Surfaces ==
    {from_parameters([dim |-> 2,
                      items |-> [i \in 1..rows |-> [j \in 1..2 |-> Point(i, j, h * i)]]],
                     [i \in 1..rows |-> i], <<1, 2>>,
                     [i \in 1..rows |-> IF i \in {1, rows} THEN 2 ELSE 1], <<2, 2>>,
                     1, 1, FALSE, FALSE).ret :
        rows \in 2..MaxRows, h \in 0..1}

Curves == {<<"curve", 1>>, <<"curve", 2>>}

\* A = BRep.from_box(Box.from_width_height_depth(2, 2, 2))
\* B = BRep.from_sphere(sphere)
Init ==
    /\ A = from_box([frame |-> [point |-> Point(0, 0, 0), xaxis |-> Vector(1, 0, 0),
                                yaxis |-> Vector(0, 1, 0)],
                     xsize |-> 2, ysize |-> 2, zsize |-> 2]).self
    /\ B = from_sphere("sphere")
    /\ brep = __init__
    /\ call = NoCall
    /\ read = NoRead

\* brep = BRep.<entry>(args): the call is recorded and its result bound.
Returned(entry, args, oracle, r) ==
    /\ brep' = r.self
    /\ call' = [entry |-> entry, args |-> args, oracle |-> oracle, ev |-> r.ev,
                kernel |-> NoKernel, raised |-> "", ret |-> r.self, obj |-> "new",
                post |-> <<>>]
    /\ read' = NoRead

FromPolygons ==
    /\ brep = __init__
    /\ \E polygons \in PolygonLists, t \in SewedTypes :
        Returned("from_polygons", polygons, <<t>>, from_polygons(polygons, t))
    /\ UNCHANGED <<A, B>>

FromMesh ==
    /\ brep = __init__
    /\ \E mesh \in PolygonLists, t \in SewedTypes :
        Returned("from_mesh", mesh, <<t>>, from_mesh(mesh, t))
    /\ UNCHANGED <<A, B>>

FromFaces ==
    /\ brep = __init__
    /\ \E fs \in FaceLists, t \in SewedTypes :
        Returned("from_faces", fs, <<t>>, from_faces(fs, t))
    /\ UNCHANGED <<A, B>>

\* other = BRep(); other.data = brep.data; brep = other
SetData ==
    /\ brep # __init__
    /\ read = NoRead
    /\ \E v \in BOOLEAN, t \in SewedTypes :
        LET d == data(brep)
        IN  Returned("data", d, <<t, v>>, data_setter(__init__, d, v, t))
    /\ UNCHANGED <<A, B>>

\* brep = BRep.from_box(box); the box after the call is recorded.
FromBox ==
    /\ brep = __init__
    /\ \E box \in Boxes :
        LET r == from_box(box)
        IN  /\ brep' = r.self
            /\ call' = [NoCall EXCEPT !.entry = "from_box", !.args = <<box>>,
                                      !.ret = r.self, !.obj = "new",
                                      !.post = <<r.box>>]
            /\ read' = NoRead
    /\ UNCHANGED <<A, B>>

FromSphere ==
    /\ brep = __init__
    /\ Returned("from_sphere", <<"sphere">>, <<>>,
                [self |-> from_sphere("sphere"), ev |-> <<>>])
    /\ UNCHANGED <<A, B>>

\* B = brep = BRep.from_cylinder(cylinder)
FromCylinder ==
    /\ brep = __init__
    /\ Returned("from_cylinder", <<"cylinder">>, <<>>,
                [self |-> from_cylinder("cylinder"), ev |-> <<>>])
    /\ B' = brep'
    /\ UNCHANGED A

\* brep = x <op> y with x, y the operands in either order; r is what the
\* operator or constructor did.
BooleanCall(entry, swap, done, r) ==
    /\ call' = [entry |-> entry, args |-> IF swap THEN <<B, A>> ELSE <<A, B>>,
                oracle |-> <<done>>, ev |-> <<>>, kernel |-> r.kernel,
                raised |-> r.raised, ret |-> r.ret, obj |-> r.obj,
                post |-> <<r.A, r.B>>]
    /\ A' = IF swap THEN r.B ELSE r.A
    /\ B' = IF swap THEN r.A ELSE r.B
    /\ brep' = IF r.raised = "" THEN r.ret ELSE brep
    /\ read' = NoRead

First(swap) == IF swap THEN B ELSE A
Second(swap) == IF swap THEN A ELSE B

Add ==
    /\ brep = __init__
    /\ \E swap \in BOOLEAN, done \in BOOLEAN :
        BooleanCall("__add__", swap, done, __add__(First(swap), Second(swap), done))

Sub ==
    /\ brep = __init__
    /\ \E swap \in BOOLEAN, done \in BOOLEAN :
        BooleanCall("__sub__", swap, done, __sub__(First(swap), Second(swap), done))

And ==
    /\ brep = __init__
    /\ \E swap \in BOOLEAN, done \in BOOLEAN :
        BooleanCall("__and__", swap, done, __and__(First(swap), Second(swap), done))

FromBooleanUnion ==
    /\ brep = __init__
    /\ \E swap \in BOOLEAN, done \in BOOLEAN :
        BooleanCall("from_boolean_union", swap, done,
                    from_boolean_union(First(swap), Second(swap), done))

FromBooleanDifference ==
    /\ brep = __init__
    /\ \E swap \in BOOLEAN, done \in BOOLEAN :
        BooleanCall("from_boolean_difference", swap, done,
                    from_boolean_difference(First(swap), Second(swap), done))

FromBooleanIntersection ==
    /\ brep = __init__
    /\ \E swap \in BOOLEAN, done \in BOOLEAN :
        BooleanCall("from_boolean_intersection", swap, done,
                    from_boolean_intersection(First(swap), Second(swap), done))

\* value = brep.<kind>; again = brep.<kind>
Read ==
    /\ brep # __init__
    /\ read = NoRead
    /\ \E kind \in ReadKinds :
        LET r == Get(brep, kind)
            r2 == Get(r.self, kind)
        IN  /\ read' = [kind |-> kind, result |-> r.ret, again |-> r2.ret,
                        before |-> brep.occ_shape]
            /\ brep' = r2.self
    /\ UNCHANGED <<A, B, call>>

\* value = brep.frame; again = brep.frame
ReadFrame ==
    /\ brep # __init__
    /\ read = NoRead
    /\ \E o1 \in FrameOutcomes, o2 \in FrameOutcomes :
        LET r == frame(brep, o1)
            r2 == frame(r.self, o2)
        IN  /\ read' = [kind |-> "frame", result |-> r.ret, again |-> r2.ret,
                        before |-> brep.occ_shape]
            /\ brep' = r2.self
    /\ UNCHANGED <<A, B, call>>

\* BRep.<entry>(args) that binds no object: the call is recorded.
Called(entry, args, oracle, r) ==
    /\ call' = [NoCall EXCEPT !.entry = entry, !.args = args, !.oracle = oracle,
                              !.kernel = r.kernel, !.raised = r.raised,
                              !.ret = r.ret, !.obj = r.obj]
    /\ brep' = IF r.obj = "new" THEN r.ret ELSE brep
    /\ read' = NoRead

FromCurves ==
    /\ brep = __init__
    /\ \E cs \in SeqsUpTo(Curves, MaxFaces) :
        Called("from_curves", <<cs>>, <<>>, from_curves(cs))
    /\ UNCHANGED <<A, B>>

FromCone ==
    /\ brep = __init__
    /\ \E cone \in Primitives("cone") :
        Called("from_cone", <<cone>>, <<>>, from_cone(cone))
    /\ UNCHANGED <<A, B>>

FromTorus ==
    /\ brep = __init__
    /\ \E torus \in Primitives("torus") :
        Called("from_torus", <<torus>>, <<>>, from_torus(torus))
    /\ UNCHANGED <<A, B>>

FromExtrusion ==
    /\ brep = __init__
    /\ \E curve \in Curves, vector \in {Vector(0, 0, 1), Vector(1, 0, 0)} :
        Called("from_extrusion", <<curve, vector>>, <<>>, from_extrusion(curve, vector))
    /\ UNCHANGED <<A, B>>

FromSweep ==
    /\ brep = __init__
    /\ \E profile \in Curves, path \in Curves :
        Called("from_sweep", <<profile, path>>, <<>>, from_sweep(profile, path))
    /\ UNCHANGED <<A, B>>

\* BSplineSurface.from_points(points)
SurfaceFromPoints ==
    /\ brep = __init__
    /\ \E s \in Surfaces :
        LET ps == Flatten(poles(s).ret.items)
        IN  Called("BSplineSurface.from_points", <<ps>>, <<>>, from_points(ps))
    /\ UNCHANGED <<A, B>>

\* BSplineSurface.from_step(filepath)
SurfaceFromStep ==
    /\ brep = __init__
    /\ \E filepath \in {"surface.stp", ""} :
        Called("BSplineSurface.from_step", <<filepath>>, <<>>, from_step(filepath))
    /\ UNCHANGED <<A, B>>

\* brep.to_step(filepath)
ToStep ==
    /\ brep # __init__
    /\ read = NoRead
    /\ \E status \in IFSelect_ReturnStatus :
        LET r == to_step(brep, status)
        IN  /\ read' = [kind |-> "to_step", result |-> <<status, r.raised, r.ret>>,
                        again |-> <<>>, before |-> brep.occ_shape]
            /\ brep' = r.self
    /\ UNCHANGED <<A, B, call>>

\* surface.to_step(filepath); the surface after the call is recorded.
SurfaceToStep ==
    /\ brep = __init__
    /\ \E s \in Surfaces, status \in IFSelect_ReturnStatus :
        LET r == BSplineSurface_to_step(s, status)
        IN  call' = [NoCall EXCEPT !.entry = "BSplineSurface.to_step", !.args = <<s>>,
                                  !.oracle = <<status>>, !.raised = r.raised,
                                  !.obj = r.ret, !.post = <<r.self>>]
    /\ UNCHANGED <<A, B, brep, read>>

\* brep.is_manifold()
IsManifold ==
    /\ brep # __init__
    /\ read = NoRead
    /\ LET r == is_manifold(brep)
       IN  /\ read' = [kind |-> "is_manifold", result |-> r.ret, again |-> <<>>,
                       before |-> brep.occ_shape]
           /\ brep' = r.self
    /\ UNCHANGED <<A, B, call>>

\* mesh = brep.to_tesselation()
ToTesselation ==
    /\ brep # __init__
    /\ read = NoRead
    /\ \E style \in {"fan", "turned", "null"} :
        LET r == to_tesselation(brep, style)
        IN  /\ read' = [kind |-> "to_tesselation",
                        result |-> <<style, r.raised, r.ret, r.parts>>,
                        again |-> <<>>, before |-> brep.occ_shape]
            /\ brep' = r.self
    /\ UNCHANGED <<A, B, call>>

\* brep.sew(): the calls made are recorded.
Sew ==
    /\ brep # __init__
    /\ read = NoRead
    /\ \E t \in SewedTypes :
        LET r == sew([self |-> brep, ev |-> <<>>], t)
        IN  /\ read' = [kind |-> "sew", result |-> r.ev, again |-> <<>>,
                        before |-> brep.occ_shape]
            /\ brep' = r.self
    /\ UNCHANGED <<A, B, call>>

\* brep.fix(): the calls made are recorded.
Fix ==
    /\ brep # __init__
    /\ read = NoRead
    /\ LET r == fix([self |-> brep, ev |-> <<>>])
       IN  /\ read' = [kind |-> "fix", result |-> r.ev, again |-> <<>>,
                       before |-> brep.occ_shape]
           /\ brep' = r.self
    /\ UNCHANGED <<A, B, call>>

\* del brep: the variable is free for the next call.
Discard ==
    /\ brep # __init__
    /\ brep' = __init__
    /\ call' = NoCall
    /\ read' = NoRead
    /\ UNCHANGED <<A, B>>

Next ==
    \/ FromPolygons
    \/ FromMesh
    \/ FromFaces
    \/ SetData
    \/ FromBox
    \/ FromSphere
    \/ FromCylinder
    \/ Add
    \/ Sub
    \/ And
    \/ FromBooleanUnion
    \/ FromBooleanDifference
    \/ FromBooleanIntersection
    \/ Read
    \/ ReadFrame
    \/ FromCurves
    \/ FromCone
    \/ FromTorus
    \/ FromExtrusion
    \/ FromSweep
    \/ SurfaceFromPoints
    \/ SurfaceFromStep
    \/ ToStep
    \/ SurfaceToStep
    \/ IsManifold
    \/ ToTesselation
    \/ Sew
    \/ Fix
    \/ Discard

Spec == Init /\ [][Next]_vars

(***************************************************************************)
(* The conversions and the surfaces, as a program of its own: one call at a *)
(* time, on inputs drawn from the pools, recorded in call.                  *)
(***************************************************************************)

\* Point.from_occ(point.to_occ())
ConvertPoint ==
    /\ call = NoCall
    /\ \E point \in Primitives("point") :
        LET r == compas_point_from_occ_point("Point", compas_point_to_occ_point(point))
        IN  call' = [NoCall EXCEPT !.entry = "compas_point_from_occ_point",
                                  !.args = <<point>>, !.raised = r.raised,
                                  !.ret = r.ret]
    /\ UNCHANGED <<A, B, brep, read>>

\* Vector.from_occ(vector.to_occ())
ConvertVector ==
    /\ call = NoCall
    /\ \E vector \in Primitives("vector") :
        LET r == compas_vector_from_occ_vector("Vector", compas_vector_to_occ_vector(vector))
        IN  call' = [NoCall EXCEPT !.entry = "compas_vector_from_occ_vector",
                                  !.args = <<vector>>, !.raised = r.raised,
                                  !.ret = r.ret]
    /\ UNCHANGED <<A, B, brep, read>>

\* compas_axis_from_occ_axis(compas_axis_to_occ_axis((point, vector))), for a
\* unit vector.
ConvertAxis ==
    /\ call = NoCall
    /\ \E pl \in Primitives("plane") :
        LET axis == <<pl.point, pl.normal>>
            r == compas_axis_from_occ_axis(compas_axis_to_occ_axis(axis))
        IN  call' = [NoCall EXCEPT !.entry = "compas_axis_from_occ_axis",
                                  !.args = axis, !.raised = r.raised, !.ret = r.ret]
    /\ UNCHANGED <<A, B, brep, read>>

\* occ = value.to_occ(); back = <Kind>.from_occ(occ)
ConvertPrimitive ==
    /\ call = NoCall
    /\ \E kind \in {"point", "vector", "line", "plane", "circle", "sphere",
                     "cylinder", "cone", "torus"},
          outcome \in {"gp_Cone", "TypeError"} :
        \E value \in Primitives(kind) :
            LET occ == to_occ(kind, value, outcome)
                r == IF occ.cls = "TypeError" THEN TypeError ELSE from_occ(kind, occ)
            IN  call' = [NoCall EXCEPT !.entry = "from_occ", !.args = <<kind, value>>,
                                      !.oracle = IF kind = "cone" THEN <<outcome>>
                                                 ELSE <<>>,
                                      !.ev = <<occ>>, !.raised = r.raised,
                                      !.ret = r.ret]
    /\ UNCHANGED <<A, B, brep, read>>

\* d = s.data; made = BSplineSurface.from_data(d); other = BSplineSurface();
\* other.data = d
SurfaceData ==
    /\ call = NoCall
    /\ \E s \in Surfaces, outcome \in {"AttributeError", "flat"} :
        LET d == BSplineSurface_data(s, outcome)
            made == IF d.raised # "" THEN [raised |-> d.raised, ret |-> NoSurface]
                    ELSE from_data(d.ret)
            other == IF d.raised # "" THEN [raised |-> d.raised, ret |-> NoSurface]
                     ELSE BSplineSurface_data_setter(NoSurface, d.ret)
        IN  call' = [NoCall EXCEPT !.entry = "BSplineSurface.from_data",
                                  !.args = <<s>>, !.oracle = <<outcome>>,
                                  !.ev = <<d>>, !.raised = made.raised,
                                  !.ret = made.ret, !.post = <<other>>]
    /\ UNCHANGED <<A, B, brep, read>>

\* The arguments a caller may give to an accessor or evaluation of s.
SurfaceReadArgs(s, kind) ==
    LET S == s.occ_surface
    IN  IF kind \in {"point_at", "frame_at"}
        THEN {<<S.UKnots[i], S.VKnots[j]>> : i \in DOMAIN S.UKnots, j \in DOMAIN S.VKnots}
        ELSE IF kind = "intersections"
        THEN {<<line, hits>> :
                 line \in {[cls |-> "Line", start |-> Point(1, 1, 0), end |-> Point(1, 1, 2)]},
                 hits \in {<<>>, <<S.Poles[1][1]>>, <<S.Poles[1][1], S.Poles[2][2]>>}}
        ELSE {<<>>}

\* first = s.<kind>; s.<other>; again = s.<kind>
SurfaceRead ==
    /\ call = NoCall
    /\ \E s \in Surfaces, kind \in SurfaceReadKinds, other \in SurfaceReadKinds :
        \E args \in SurfaceReadArgs(s, kind), more \in SurfaceReadArgs(s, other) :
            LET r1 == BSplineSurface_get(s, kind, args)
                r2 == BSplineSurface_get(r1.self, other, more)
                r3 == BSplineSurface_get(r2.self, kind, args)
            IN  call' = [NoCall EXCEPT !.entry = "BSplineSurface.get",
                                      !.args = <<s, kind, args, other, more>>,
                                      !.ret = <<r1.ret, r3.ret>>,
                                      !.post = <<r3.self>>]
    /\ UNCHANGED <<A, B, brep, read>>

\* other = s.copy()
SurfaceCopy ==
    /\ call = NoCall
    /\ \E s \in Surfaces :
        LET r == copy(s)
        IN  call' = [NoCall EXCEPT !.entry = "BSplineSurface.copy", !.args = <<s>>,
                                  !.raised = r.raised, !.ret = r.ret, !.obj = r.obj,
                                  !.post = <<r.self>>]
    /\ UNCHANGED <<A, B, brep, read>>

\* other = s.transformed(Translation.from_vector([a, b, c]))
SurfaceTransformed ==
    /\ call = NoCall
    /\ \E s \in Surfaces, a \in 0..1, b \in 0..1, c \in 0..MaxCoord :
        LET T == [cls |-> "Transformation",
                  list |-> <<1, 0, 0, a, 0, 1, 0, b, 0, 0, 1, c, 0, 0, 0, 1>>]
            r == transformed(s, T)
        IN  call' = [NoCall EXCEPT !.entry = "BSplineSurface.transformed",
                                  !.args = <<s, T>>, !.raised = r.raised,
                                  !.ret = r.ret, !.obj = r.obj, !.post = <<r.self>>]
    /\ UNCHANGED <<A, B, brep, read>>

\* mesh = s.to_vizmesh(u, v) for a surface of rows x rows poles over the
\* knots 1..rows, with counts whose grid parameters are knots.
SurfaceToVizmesh ==
    /\ call = NoCall
    /\ \E rows \in 2..MaxRows, h \in 0..1 :
        LET s == from_parameters(
                     [dim |-> 2,
                      items |-> [i \in 1..rows |-> [j \in 1..rows |-> Point(i, j, h * i + j)]]],
                     [i \in 1..rows |-> i], [i \in 1..rows |-> i],
                     [i \in 1..rows |-> IF i \in {1, rows} THEN 2 ELSE 1],
                     [i \in 1..rows |-> IF i \in {1, rows} THEN 2 ELSE 1],
                     1, 1, FALSE, FALSE).ret
            Counts == {k \in 2..rows : (rows - 1) % (k - 1) = 0}
        IN  \E u \in Counts, v \in {<<>>, <<0>>} \cup {<<k>> : k \in Counts} :
                LET r == to_vizmesh(s, u, v)
                IN  call' = [NoCall EXCEPT !.entry = "BSplineSurface.to_vizmesh",
                                          !.args = <<s, u, v>>, !.raised = r.raised,
                                          !.ret = r.ret, !.post = <<r.self>>]
    /\ UNCHANGED <<A, B, brep, read>>

\* The result is dropped.
Forget ==
    /\ call # NoCall
    /\ call' = NoCall
    /\ UNCHANGED <<A, B, brep, read>>

GeometryNext ==
    \/ ConvertPoint
    \/ ConvertVector
    \/ ConvertAxis
    \/ ConvertPrimitive
    \/ SurfaceData
    \/ SurfaceRead
    \/ SurfaceCopy
    \/ SurfaceTransformed
    \/ SurfaceToVizmesh
    \/ Forget

Geometry == Init /\ [][GeometryNext]_vars

(***************************************************************************)
(* Properties                                                               *)
(***************************************************************************)

\* The "Add" events of a call, in order.
IsAdd(e) == e[1] = "Add"
Added(ev) == SelectSeq(ev, IsAdd)

C2_HolesRoundTrip ==
    /\ brep # __init__ =>
          LET fs == faces(brep)
              d == data(brep)
          IN  \A i \in 1..Len(fs) :
                  Len(d.faces[i].holes) = Len(fs[i].occ.loops) - 1
    /\ call.entry = "data" =>
          LET fs == faces(call.ret)
          IN  \A j \in 1..Len(fs) :
                  Len(fs[j].occ.loops) - 1 = Len(call.args.faces[j].holes)

BooleanOperators == {"__add__", "__sub__", "__and__"}

BooleanConstructors ==
    {"from_boolean_union", "from_boolean_difference", "from_boolean_intersection"}

\* The kernel operation behind each operator and constructor.
KernelOperation(entry) ==
    CASE entry \in {"__add__", "from_boolean_union"} -> "BRepAlgoAPI_Fuse"
      [] entry \in {"__sub__", "from_boolean_difference"} -> "BRepAlgoAPI_Cut"
      [] entry \in {"__and__", "from_boolean_intersection"} -> "BRepAlgoAPI_Common"

\* C3: x + y, x - y and x & y have the outcome (kernel call, result or error)
\* of from_boolean_union(x, y), from_boolean_difference(x, y) and
\* from_boolean_intersection(x, y), and the kernel operation of every operator
\* and constructor gets the first operand's shape first and the second's second.
C3_OperatorsDelegate ==
    /\ call.entry \in BooleanOperators =>
          LET x == call.args[1]
              y == call.args[2]
              done == call.oracle[1]
              same == CASE call.entry = "__add__" -> from_boolean_union(x, y, done)
                        [] call.entry = "__sub__" -> from_boolean_difference(x, y, done)
                        [] call.entry = "__and__" -> from_boolean_intersection(x, y, done)
          IN  /\ call.kernel = same.kernel
              /\ call.raised = same.raised
              /\ call.ret = same.ret
    /\ call.entry \in BooleanOperators \cup BooleanConstructors =>
          /\ call.kernel.op = KernelOperation(call.entry)
          /\ call.kernel.first = call.args[1].occ_shape
          /\ call.kernel.second = call.args[2].occ_shape

\* B - A returned a shape, with operands of different shapes.
C3_Witness ==
    /\ call.entry = "__sub__"
    /\ call.raised = ""
    /\ call.args = <<B, A>>
    /\ A.occ_shape # B.occ_shape

\* The message of the exception of each operator and constructor.
Message(entry) ==
    CASE entry \in {"__add__", "from_boolean_union"} ->
            "Boolean union operation could not be completed."
      [] entry \in {"__sub__", "from_boolean_difference"} ->
            "Boolean difference operation could not be completed."
      [] entry \in {"__and__", "from_boolean_intersection"} ->
            "Boolean intersection operation could not be completed."

\* C4: when the kernel operation is not done, the constructors and operators
\* raise the exception that names the operation and return no BRep; when it is
\* done they return a BRep whose shape is the kernel's result shape.
C4_BooleanOutcome ==
    call.entry \in BooleanOperators \cup BooleanConstructors =>
        IF call.oracle[1]
        THEN /\ call.raised = ""
             /\ call.obj # "none"
             /\ call.ret.occ_shape =
                    KernelBoolean(KernelOperation(call.entry),
                                  call.args[1].occ_shape, call.args[2].occ_shape)
             /\ brep = call.ret
        ELSE /\ call.raised = Message(call.entry)
             /\ call.obj = "none"
             /\ brep = __init__

\* A & B raised.
C4_Witness ==
    /\ call.entry = "__and__"
    /\ ~call.oracle[1]
    /\ call.raised = "Boolean intersection operation could not be completed."

\* C5: a boolean operation leaves both operands as they were, whether it
\* returns or raises, and what it returns is a new object.
C5_OperandsUnchanged ==
    call.entry \in BooleanOperators \cup BooleanConstructors =>
        /\ call.post = call.args
        /\ <<A, B>> = call.args \/ <<B, A>> = call.args
        /\ call.raised = "" => call.obj = "new"

\* from_boolean_intersection(A, B) returned.
C5_Witness ==
    /\ call.entry = "from_boolean_intersection"
    /\ call.raised = ""
    /\ call.args = <<A, B>>

\* The face builder from_polygons and from_mesh are to use for a polygon.
Builder(n) ==
    IF n = 3 THEN "triangle_to_face"
    ELSE IF n = 4 THEN "quad_to_face"
    ELSE "ngon_to_face"

\* C6: from_polygons adds one face per polygon, in input order, built by
\* triangle_to_face for 3 points, quad_to_face for 4 and ngon_to_face for any
\* other number; no polygon is skipped.
C6_FromPolygons ==
    call.entry = "from_polygons" =>
        LET adds == Added(call.ev)
        IN  /\ Len(adds) = Len(call.args)
            /\ \A i \in 1..Len(adds) :
                  /\ adds[i][2].kind = Builder(call.args[i])
                  /\ adds[i][2].surface = <<"polygon", call.args[i]>>
            /\ call.ret.occ_shape.faces = [i \in 1..Len(adds) |-> adds[i][2]]

\* from_polygons was given a polygon of two points, then a quad.
C6_Witness ==
    /\ call.entry = "from_polygons"
    /\ call.args = <<2, 4>>

\* C7: from_mesh(mesh) does what from_polygons does for the list of the face
\* coordinates of the mesh in mesh.faces() order: the same faces are added by
\* the same builders in the same order, then the same sew and fix.
C7_FromMesh ==
    call.entry = "from_mesh" =>
        LET mesh == call.args
            polygons == [face \in 1..Len(mesh) |-> mesh[face]]
            same == from_polygons(polygons, call.oracle[1])
        IN  /\ call.ev = same.ev
            /\ call.ret = same.self

\* from_mesh was given a mesh of a triangle and a quad.
C7_Witness ==
    /\ call.entry = "from_mesh"
    /\ call.args = <<3, 4>>

\* C8: from_faces adds every given face, in input order; a face is added
\* right after is_valid() returned true for it or right after fix() was called
\* on it, and fix() is only called right after is_valid() returned false.
C8_FromFaces ==
    call.entry = "from_faces" =>
        LET ev == call.ev
            fs == call.args
            adds == Added(ev)
        IN  /\ Len(adds) = Len(fs)
            /\ \A i \in 1..Len(adds) :
                  /\ adds[i][2].surface = fs[i].surface
                  /\ adds[i][2].loops = fs[i].loops
                  /\ adds[i][2].fixes = IF fs[i].valid THEN fs[i].fixes
                                        ELSE fs[i].fixes + 1
            /\ \A p \in 1..Len(ev) :
                  /\ ev[p][1] = "Add" =>
                        /\ p > 1
                        /\ \/ ev[p - 1][1] = "is_valid" /\ ev[p - 1][3]
                           \/ ev[p - 1][1] = "face.fix"
                  /\ ev[p][1] = "face.fix" =>
                        /\ p > 1
                        /\ ev[p - 1] = <<"is_valid", ev[p][2], FALSE>>

\* from_faces was given a valid face and then an invalid one.
C8_Witness ==
    /\ call.entry = "from_faces"
    /\ Len(call.args) = 2
    /\ call.args[1].valid
    /\ ~call.args[2].valid

\* C9 as stated: from_faces returns a shell for every list of faces.
C9_AlwaysShell ==
    call.entry = "from_faces" => type(call.ret) = "TopAbs_SHELL"

\* C9, amended: from_faces returns a shell for a list of at most one face,
\* and for a longer list exactly when the kernel's sewed shape is a shell;
\* otherwise the shape is the sewed shape, of the type the kernel gave it.
C9_ShellUnlessSewedOtherwise ==
    call.entry = "from_faces" =>
        /\ Len(call.args) <= 1 => type(call.ret) = "TopAbs_SHELL"
        /\ Len(call.args) > 1 => type(call.ret) = call.oracle[1]

\* from_faces was given two faces and the sewed shape was a compound.
C9_Witness ==
    /\ call.entry = "from_faces"
    /\ Len(call.args) = 2
    /\ type(call.ret) = "TopAbs_COMPOUND"

\* The explorer type and the wrapper class of the four traversals.
ExplorerType(kind) ==
    CASE kind = "vertices" -> "TopAbs_VERTEX"
      [] kind = "edges" -> "TopAbs_EDGE"
      [] kind = "loops" -> "TopAbs_WIRE"
      [] kind = "faces" -> "TopAbs_FACE"

WrapperClass(kind) ==
    CASE kind = "vertices" -> "BRepVertex"
      [] kind = "edges" -> "BRepEdge"
      [] kind = "loops" -> "BRepLoop"
      [] kind = "faces" -> "BRepFace"

\* C10: vertices, edges, loops and faces return one wrapper per sub-shape the
\* explorer of the matching type visits, in visiting order; a read of any of
\* the ten accessors (frame included, whatever it yields) leaves occ_shape as
\* it was, and a second read of a list, the type or the orientation right
\* after the first returns the same.
C10_ReadOnlyTraversals ==
    read.kind \notin {"none", "sew", "fix"} =>
        /\ brep.occ_shape = read.before
        /\ read.kind \in ReadKinds => read.again = read.result
        /\ read.kind \in {"vertices", "edges", "loops", "faces"} =>
              LET visited == KernelExplore(read.before, ExplorerType(read.kind))
              IN  /\ Len(read.result) = Len(visited)
                  /\ \A i \in 1..Len(visited) :
                        /\ read.result[i].occ = visited[i]
                        /\ read.result[i].cls = WrapperClass(read.kind)

\* The loops of a BRep of two faces, one of them with an inner loop, were read.
C10_Witness ==
    /\ read.kind = "loops"
    /\ Len(read.before.faces) = 2
    /\ Len(read.result) = 3

\* C11: BRep.to_step returns None exactly when the writer reports
\* IFSelect_RetDone and otherwise fails with the AssertionError "STEP writing
\* failed."; BSplineSurface.to_step raises AssertionError("Operation failed.")
\* on any other status and returns None on IFSelect_RetDone; the shape of the
\* BRep and the surface of the BSplineSurface are the same after the call as
\* before, in both outcomes.
C11_ToStep ==
    /\ read.kind = "to_step" =>
          /\ read.result[1] = "IFSelect_RetDone" =>
                read.result[2] = "" /\ read.result[3] = "None"
          /\ read.result[1] # "IFSelect_RetDone" =>
                read.result[2] = "AssertionError: STEP writing failed."
          /\ brep.occ_shape = read.before
    /\ call.entry = "BSplineSurface.to_step" =>
          /\ call.oracle[1] = "IFSelect_RetDone" =>
                call.raised = "" /\ call.obj = "None"
          /\ call.oracle[1] # "IFSelect_RetDone" =>
                call.raised = "AssertionError: Operation failed."
          /\ call.post[1] = call.args[1]

\* to_step of a BRep of two faces failed on the status IFSelect_RetFail.
C11_Witness ==
    /\ read.kind = "to_step"
    /\ read.result[1] = "IFSelect_RetFail"
    /\ read.result[2] # ""
    /\ Len(read.before.faces) = 2

\* The constructors that take geometry, and those of them that make a BRep.
GeometryConstructors ==
    {"from_polygons", "from_mesh", "from_faces", "from_box", "from_sphere",
     "from_cylinder", "from_curves", "from_cone", "from_torus", "from_extrusion",
     "from_sweep", "BSplineSurface.from_points", "BSplineSurface.from_step"}

SupportedConstructors ==
    {"from_polygons", "from_mesh", "from_faces", "from_box", "from_sphere",
     "from_cylinder"}

C13_ReturnBRep ==
    call.entry \in {"from_extrusion", "from_sweep"} =>
        /\ call.raised = ""
        /\ call.obj = "new"
        /\ call.ret.occ_shape # None

\* The number of faces of the shape that have the edge in one of their loops.
FacesOfEdge(shape, e) ==
    Cardinality({i \in 1..Len(shape.faces) :
                    \E l \in 1..Len(shape.faces[i].loops) :
                        \E k \in 1..Len(shape.faces[i].loops[l]) :
                            shape.faces[i].loops[l][k] = e})

\* C14: is_manifold returns False when some edge of the BRep is shared by
\* more than two faces, and True otherwise.
C14_IsManifold ==
    read.kind = "is_manifold" =>
        LET es == KernelExplore(read.before, "TopAbs_EDGE")
            shared == \E k \in 1..Len(es) : FacesOfEdge(read.before, es[k]) > 2
        IN  read.result[1] = IF shared THEN "False" ELSE "True"

\* C15: a COMPAS point converted to a kernel point and back, and a COMPAS
\* vector converted to a kernel vector and back, has the x, the y and the z
\* it had, each in its place, and is a Point or a Vector again.
C15_PointVectorRoundTrip ==
    call.entry \in {"compas_point_from_occ_point", "compas_vector_from_occ_vector"} =>
        /\ call.raised = ""
        /\ call.ret.x = call.args[1].x
        /\ call.ret.y = call.args[1].y
        /\ call.ret.z = call.args[1].z
        /\ call.ret.cls = call.args[1].cls

\* The point (0, 1, 2), whose coordinates all differ, went to the kernel and back.
C15_Witness ==
    /\ call.entry = "compas_point_from_occ_point"
    /\ call.args[1] = Point(0, 1, 2)
    /\ call.raised = ""

\* The primitives of C16 besides point and vector, and their kernel classes.
OtherPrimitives == {"line", "plane", "circle", "sphere", "cylinder", "cone", "torus"}

KernelClass(kind) ==
    CASE kind = "line" -> "gp_Lin"
      [] kind = "plane" -> "gp_Pln"
      [] kind = "circle" -> "gp_Circ"
      [] kind = "sphere" -> "gp_Sphere"
      [] kind = "cylinder" -> "gp_Cylinder"
      [] kind = "cone" -> "gp_Cone"
      [] kind = "torus" -> "gp_Torus"

\* C16 as stated: a line, plane, circle, sphere, cylinder, cone or torus
\* converted to the kernel type and back is the original value.
C16_Bidirectional ==
    (call.entry = "from_occ" /\ call.args[1] \in OtherPrimitives) =>
        /\ call.raised = ""
        /\ call.ret = call.args[2]

\* C16, amended: the layer converts both ways for points and vectors only,
\* where host to kernel to host gives the original value; for a line, plane,
\* circle, sphere, cylinder, cone or torus there is the conversion to the
\* kernel type (whose value has the kernel class of the kind, unless the
\* kernel rejects the cone) and no conversion back: nothing is returned.
C16_OneWay ==
    call.entry = "from_occ" =>
        /\ call.args[1] \in {"point", "vector"} =>
              call.raised = "" /\ call.ret = call.args[2]
        /\ call.args[1] \in OtherPrimitives =>
              /\ call.ev[1].cls \in {KernelClass(call.args[1]), "TypeError"}
              /\ call.ev[1].cls = "TypeError" => call.args[1] = "cone"
              /\ call.raised = IF call.ev[1].cls = "TypeError" THEN "TypeError"
                               ELSE "ImportError"
              /\ call.ret = Missing

\* A line became a gp_Lin and no conversion brought it back.
C16_Witness ==
    /\ call.entry = "from_occ"
    /\ call.args[1] = "line"
    /\ call.ev[1].cls = "gp_Lin"
    /\ call.raised = "ImportError"

\* C17: compas_axis_from_occ_axis of the kernel axis built from (p, v), v a
\* unit vector, returns (p, v) and does not raise.
C17_AxisRoundTrip ==
    call.entry = "compas_axis_from_occ_axis" =>
        /\ call.raised = ""
        /\ call.ret = call.args

\* C18: for every surface s, from_data(s.data) succeeds and gives a surface
\* with the poles of s in the rows and columns of s and with its knots,
\* multiplicities, degrees and periodicity, and the data setter given the
\* same data makes the same surface.
C18_SurfaceDataRoundTrip ==
    call.entry = "BSplineSurface.from_data" =>
        /\ call.ev[1].raised = ""
        /\ call.raised = ""
        /\ call.ret.occ_surface = call.args[1].occ_surface
        /\ call.post[1].raised = ""
        /\ call.post[1].ret = call.ret

\* C19: the accessors and the evaluations of a BSplineSurface are read-only:
\* after any one of them, then any other, occ_surface is what it was, and
\* the first returns what it returned before.
C19_SurfaceReadOnly ==
    call.entry = "BSplineSurface.get" =>
        /\ call.post[1] = call.args[1]
        /\ call.ret[2] = call.ret[1]

\* The poles of a surface of three rows were read before and after its
\* intersections with a line, of which the kernel found two.
C19_Witness ==
    /\ call.entry = "BSplineSurface.get"
    /\ call.args[2] = "poles"
    /\ call.args[4] = "intersections"
    /\ Len(call.args[5][2]) = 2
    /\ Len(call.ret[1].items) = 3

\* C20: from_box gives the kernel the corner box.frame.point - 0.5 * (xsize *
\* xaxis + ysize * yaxis + zsize * zaxis) and the sizes xsize, ysize, zsize
\* along the x, y and z axis of the frame, so that the centre of the solid
\* (the corner plus half of each extent along its direction) is
\* box.frame.point; the box is after the call what it was before.
C20_FromBox ==
    call.entry = "from_box" =>
        LET box == call.args[1]
            f == box.frame
            z == zaxis(f)
            g == call.ret.occ_shape.geom
            ax2 == g[2]
            corner == ax2.Location
        IN  /\ g[1] = "box"
            /\ 2 * corner.X = 2 * f.point.x - (box.xsize * f.xaxis.x
                                  + box.ysize * f.yaxis.x + box.zsize * z.x)
            /\ 2 * corner.Y = 2 * f.point.y - (box.xsize * f.xaxis.y
                                  + box.ysize * f.yaxis.y + box.zsize * z.y)
            /\ 2 * corner.Z = 2 * f.point.z - (box.xsize * f.xaxis.z
                                  + box.ysize * f.yaxis.z + box.zsize * z.z)
            /\ <<g[3], g[4], g[5]>> = <<box.xsize, box.ysize, box.zsize>>
            /\ ax2.XDirection = gp_Dir(f.xaxis.x, f.xaxis.y, f.xaxis.z)
            /\ ax2.YDirection = gp_Dir(f.yaxis.x, f.yaxis.y, f.yaxis.z)
            /\ ax2.Direction = gp_Dir(z.x, z.y, z.z)
            /\ 2 * corner.X + g[3] * ax2.XDirection.X + g[4] * ax2.YDirection.X
                    + g[5] * ax2.Direction.X = 2 * f.point.x
            /\ 2 * corner.Y + g[3] * ax2.XDirection.Y + g[4] * ax2.YDirection.Y
                    + g[5] * ax2.Direction.Y = 2 * f.point.y
            /\ 2 * corner.Z + g[3] * ax2.XDirection.Z + g[4] * ax2.YDirection.Z
                    + g[5] * ax2.Direction.Z = 2 * f.point.z
            /\ call.post[1] = box
            /\ read.kind \notin {"sew", "fix"} => brep = call.ret

\* from_box was given a box of three different sizes, away from the origin,
\* in a frame turned against the world axes.
C20_Witness ==
    /\ call.entry = "from_box"
    /\ call.args[1].frame.point = Point(1, 2, 3)
    /\ call.args[1].frame.xaxis = Vector(0, -1, 0)
    /\ call.args[1].xsize = 2
    /\ call.args[1].ysize = 4
    /\ call.args[1].zsize # call.args[1].ysize

\* The number of faces the explorer finds in a shape.
NbFaces(shape) == Len(KernelExplore(shape, "TopAbs_FACE"))

\* C21: sew() replaces occ_shape by the kernel's sewed shape, and calls the
\* kernel's sewing at all, only when the BRep has more than one face; on a
\* BRep with no face or one face sew() leaves occ_shape as it was.
C21_Sew ==
    read.kind = "sew" =>
        IF NbFaces(read.before) > 1
        THEN /\ read.result = << <<"sew">>, <<"BRepBuilderAPI_Sewing">> >>
             /\ \E t \in SewedTypes : brep.occ_shape = KernelSewedShape(read.before, t)
        ELSE /\ read.result = << <<"sew">> >>
             /\ brep.occ_shape = read.before

\* sew() was called on a shell of two faces and the kernel's sewed shape, a
\* compound, took its place.
C21_Witness ==
    /\ read.kind = "sew"
    /\ NbFaces(read.before) = 2
    /\ read.before.type = "TopAbs_SHELL"
    /\ brep.occ_shape # read.before
    /\ brep.occ_shape.type = "TopAbs_COMPOUND"

\* C22: fix() replaces occ_shape by the kernel's fixed shell, and calls the
\* kernel's ShapeFix_Shell at all, only when the shape type is TopAbs_SHELL;
\* for every other type occ_shape stays as it was; after a fix() that ran the
\* type is still shell.
C22_Fix ==
    read.kind = "fix" =>
        IF read.before.type = "TopAbs_SHELL"
        THEN /\ read.result = << <<"fix">>, <<"ShapeFix_Shell">> >>
             /\ brep.occ_shape = KernelFixShell(read.before)
             /\ type(brep) = "TopAbs_SHELL"
        ELSE /\ read.result = << <<"fix">> >>
             /\ brep.occ_shape = read.before

\* fix() was called on a solid and left it alone.
C22_Witness ==
    /\ read.kind = "fix"
    /\ read.before.type = "TopAbs_SOLID"
    /\ NbFaces(read.before) > 1
    /\ brep.occ_shape = read.before

\* The places of the events of one name in the calls a constructor made.
Positions(ev, name) == {p \in 1..Len(ev) : ev[p][1] = name}

\* C23: from_polygons, from_mesh, from_faces and the data setter add every
\* face to the shell before sew() is called; sew() is called exactly once and
\* before fix(); fix() is called exactly once and last, so that it acts on
\* the sewed shape and does nothing when sewing gave a shape that is not a
\* shell.  The data setter adds no sew or fix to those of from_faces.
C23_AddSewFix ==
    call.entry \in {"from_polygons", "from_mesh", "from_faces", "data"} =>
        LET ev == call.ev
            n == IF call.entry = "data" THEN Len(call.args.faces) ELSE Len(call.args)
            adds == Positions(ev, "Add")
            sews == Positions(ev, "sew")
            fixes == Positions(ev, "fix")
            sewn == n > 1
            shell == ~sewn \/ call.oracle[1] = "TopAbs_SHELL"
        IN  /\ Cardinality(adds) = n
            /\ Cardinality(sews) = 1
            /\ Cardinality(fixes) = 1
            /\ \A s \in sews, f \in fixes :
                  /\ \A a \in adds : a < s
                  /\ s < f
                  /\ Positions(ev, "BRepBuilderAPI_Sewing") = IF sewn THEN {s + 1} ELSE {}
                  /\ f = IF sewn THEN s + 2 ELSE s + 1
                  /\ Positions(ev, "ShapeFix_Shell") = IF shell THEN {f + 1} ELSE {}
                  /\ Len(ev) = IF shell THEN f + 1 ELSE f
            /\ type(call.ret) = IF shell THEN "TopAbs_SHELL" ELSE call.oracle[1]

\* from_polygons was given two polygons, the sewed shape was a compound and
\* fix() was called last and did nothing.
C23_Witness ==
    /\ call.entry = "from_polygons"
    /\ Len(call.args) = 2
    /\ call.oracle[1] = "TopAbs_COMPOUND"
    /\ call.ev[Len(call.ev)] = <<"fix">>
    /\ type(call.ret) = "TopAbs_COMPOUND"

\* C24: to_tesselation turns each kernel triangle (u, v, w), numbered from 1
\* in the nodes of its face, into the mesh face [u-1, v-1, w-1] over the list
\* of that face's nodes, so every index of a per-face mesh is in
\* 0..NbNodes-1; the returned mesh is the join of the per-face meshes in face
\* order, with as many faces as the faces have triangles together; occ_shape
\* is the same shape afterwards.
C24_ToTesselation ==
    (read.kind = "to_tesselation" /\ read.result[2] = "") =>
        LET style == read.result[1]
            mesh == read.result[3]
            parts == read.result[4]
            fs == KernelExplore(read.before, "TopAbs_FACE")
            NbNodes(i) == Len(KernelTriangulation(fs[i], style).Nodes)
            Triangle(i, k) == KernelTriangulation(fs[i], style).Triangles[k]
            NbTriangles(i) == Len(KernelTriangulation(fs[i], style).Triangles)
            NodesBefore[i \in 0..Len(fs)] ==
                IF i = 0 THEN 0 ELSE NodesBefore[i - 1] + NbNodes(i)
            TrianglesBefore[i \in 0..Len(fs)] ==
                IF i = 0 THEN 0 ELSE TrianglesBefore[i - 1] + NbTriangles(i)
        IN  /\ Len(parts) = Len(fs)
            /\ \A i \in 1..Len(fs) :
                  /\ Len(parts[i].vertices) = NbNodes(i)
                  /\ Len(parts[i].faces) = NbTriangles(i)
                  /\ \A k \in 1..NbTriangles(i) :
                        /\ parts[i].faces[k] = <<Triangle(i, k)[1] - 1,
                                                 Triangle(i, k)[2] - 1,
                                                 Triangle(i, k)[3] - 1>>
                        /\ \A c \in 1..3 : parts[i].faces[k][c] \in 0..(NbNodes(i) - 1)
                        /\ mesh.faces[TrianglesBefore[i - 1] + k] =
                              [c \in 1..3 |-> parts[i].faces[k][c] + NodesBefore[i - 1]]
                  /\ \A n \in 1..NbNodes(i) :
                        mesh.vertices[NodesBefore[i - 1] + n] = parts[i].vertices[n]
            /\ Len(mesh.vertices) = NodesBefore[Len(fs)]
            /\ Len(mesh.faces) = TrianglesBefore[Len(fs)]
            /\ brep.occ_shape = read.before

\* A shape of a triangle and a quad was tesselated: three triangles, the
\* last of them over the nodes of the second face, and one that uses the last
\* node of its face.
C24_Witness ==
    /\ read.kind = "to_tesselation"
    /\ read.result[2] = ""
    /\ Len(read.result[4]) = 2
    /\ Len(read.result[3].faces) = 3
    /\ Len(read.result[3].vertices) = 7
    /\ read.result[3].faces[3] = <<6, 5, 4>>

\* C25: copy() returns a new surface object whose kernel surface has the
\* poles, knots, multiplicities, degrees and periodicity of the original;
\* transformed(T) returns a surface that is another object than s and is the
\* copy moved by T, and leaves s as it was.
C25_CopyTransformed ==
    /\ call.entry = "BSplineSurface.copy" =>
          /\ call.raised = ""
          /\ call.obj = "new"
          /\ call.ret.occ_surface = call.args[1].occ_surface
          /\ call.post[1] = call.args[1]
    /\ call.entry = "BSplineSurface.transformed" =>
          LET s == call.args[1]
              T == call.args[2].list
              P == s.occ_surface.Poles
          IN  /\ call.post[1] = s
              /\ call.raised = ""
              /\ call.obj = "new"
              /\ call.ret.occ_surface =
                    [s.occ_surface EXCEPT !.Poles =
                        [i \in 1..Len(P) |-> [j \in 1..Len(P[i]) |->
                            gp_Pnt(P[i][j].X + T[4], P[i][j].Y + T[8], P[i][j].Z + T[12])]]]

\* C26: to_vizmesh(u, v) evaluates the surface on a grid of u by v
\* parameters and builds exactly (u-1)*(v-1) quads, each from the grid points
\* (i,j), (i,j+1), (i+1,j+1), (i+1,j) in that order, every index inside the
\* grid; v is taken equal to u when it is None or 0.
C26_ToVizmesh ==
    call.entry = "BSplineSurface.to_vizmesh" =>
        LET s == call.args[1]
            u == call.args[2]
            v == IF call.args[3] \in {<<>>, <<0>>} THEN u ELSE call.args[3][1]
            us == [k \in 1..u |-> 1 + ((k - 1) * (Len(s.occ_surface.UKnots) - 1)) \div (u - 1)]
            vs == [k \in 1..v |-> 1 + ((k - 1) * (Len(s.occ_surface.VKnots) - 1)) \div (v - 1)]
            P(i, j) == [cls |-> "Point", x |-> s.occ_surface.Poles[us[i]][vs[j]].X,
                        y |-> s.occ_surface.Poles[us[i]][vs[j]].Y,
                        z |-> s.occ_surface.Poles[us[i]][vs[j]].Z]
            quads == call.ret.polygons
        IN  /\ call.raised = ""
            /\ call.ret.cls = "Mesh"
            /\ Len(quads) = (u - 1) * (v - 1)
            /\ \A k \in 1..Len(quads) :
                  \E i \in 1..(u - 1), j \in 1..(v - 1) :
                      \/ quads[k] = <<P(i, j), P(i, j + 1), P(i + 1, j + 1), P(i + 1, j)>>
                      \/ quads[k] = <<P(i, j), P(i + 1, j), P(i + 1, j + 1), P(i, j + 1)>>

====
